---- MODULE Spec2Model ----
(***************************************************************************)
(* Model of the express backend of the music streaming platform:           *)
(* the authenticateToken middleware, the favorites and playlists           *)
(* controllers, the profile route and the schema guard, running against    *)
(* the Postgres tables, constraints and row-level-security policies of     *)
(* the schema file.                                                        *)
(*                                                                         *)
(* A request is a process.  Between two awaits a handler runs without      *)
(* interruption (single JavaScript thread), so one action is one data      *)
(* layer round trip together with the synchronous code that follows it,    *)
(* up to the next await.  Requests interleave at the awaits.               *)
(***************************************************************************)
EXTENDS Integers, Sequences, FiniteSets, TLC

\* Number of requests in a behaviour; each request runs once.
MaxReq == 2

Reqs == 1..MaxReq

NULL == "null"          \* JavaScript null / SQL NULL
UNDEF == "undefined"    \* field absent from the request body
NoNum == 0 - 1          \* absent / null numeric field

Users == {"A", "B"}

\* Bearer tokens a request can carry; NoToken is a request without header.
NoToken == "none"
Tokens == {"tokA", "tokB", "bad"}

\* The identity provider's verdict on a token: the user it belongs to.
TokenUser(t) ==
    CASE t = "tokA" -> "A"
      [] t = "tokB" -> "B"
      [] OTHER -> NULL

\* Strings that match the UUID regular expression of the controllers.
ClientTrackIds == {"T1"}
GenTrackIds == <<"G1", "G2", "G3", "G4">>
PlaylistIds == {"P1", "P0"}
GenIdSet == {GenTrackIds[i] : i \in 1..Len(GenTrackIds)}
GenPlaylistIds == <<"Q1", "Q2", "Q3", "Q4">>
GenPlaylistIdSet == {GenPlaylistIds[i] : i \in 1..Len(GenPlaylistIds)}
SeededPlaylistIds == {"P2"}
uuidRegex(x) ==
    x \in ClientTrackIds \cup GenIdSet \cup PlaylistIds \cup GenPlaylistIdSet
          \cup SeededPlaylistIds

\* A playlist name is a sequence of characters.
MaxNameLength == 100
Repeat(c, n) == [i \in 1..n |-> c]

AudiusIds == {"X1"}

VARIABLES
    schema,          \* which tables / columns the deployed database has
    profiles,        \* table profiles: set of rows
    tracks,          \* table tracks: sequence of rows
    playlists,       \* table playlists: sequence of rows
    playlist_items,  \* table playlist_items: sequence of rows, in added_at order
    favorites,       \* table favorites: sequence of rows, in created_at order
    clients,         \* clients that carry a token: client id -> token of its
                     \* Authorization header
    req              \* the requests

vars == <<schema, profiles, tracks, playlists, playlist_items, favorites, clients, req>>

db == <<schema, profiles, tracks, playlists, playlist_items, favorites>>

----------------------------------------------------------------------------
(* Sequence helpers *)

Range(s) == {s[i] : i \in 1..Len(s)}

Reverse(s) == [i \in 1..Len(s) |-> s[Len(s) + 1 - i]]

----------------------------------------------------------------------------
(* The data layer: tables, constraints and policies of the schema *)

\* auth.uid() of a query: the user of the bearer token the client attaches;
\* the module-level client attaches none.
ModuleClient == 0
NoClient == 0 - 1
\* the client the auth router creates at module level and signs users up with
AuthClient == MaxReq + 1
ClientToken(c) == IF c \in DOMAIN clients THEN clients[c] ELSE NULL
AuthUid(c) == TokenUser(ClientToken(c))

\* profiles: user_id PRIMARY KEY, username UNIQUE NOT NULL, display_name.
\* A name is a sequence of characters; the empty sequence is a NULL
\* display_name.
ProfileIds == {row.user_id : row \in profiles}

\* the row of a user who registered without a username
ProfileOf(u) == [user_id |-> u, username |-> <<"u", "s", "e", "r", "_", u>>, display_name |-> <<>>]

TracksById(id) == SelectSeq(tracks, LAMBDA row : row.id = id)

\* A lookup that finds nothing
TracksByAudius_none(x) == <<>>

TracksByAudius(x) == SelectSeq(tracks, LAMBDA row : row.audius_track_id = x)

\* gen_random_uuid(): an identifier no row uses yet
NewTrackId ==
    GenTrackIds[CHOOSE i \in 1..Len(GenTrackIds) :
        /\ \A row \in Range(tracks) : row.id # GenTrackIds[i]
        /\ \A j \in 1..(i - 1) : \E row \in Range(tracks) : row.id = GenTrackIds[j]]

\* The row an INSERT INTO tracks writes for a payload: a key the payload
\* leaves out takes the column default (id: gen_random_uuid(), others NULL).
TracksNewRow(payload) ==
    [id |-> IF payload.id = UNDEF THEN NewTrackId ELSE payload.id,
     title |-> payload.title,
     artist_name |-> IF payload.artist_name = UNDEF THEN NULL ELSE payload.artist_name,
     duration_seconds |-> payload.duration_seconds,
     audius_track_id |-> payload.audius_track_id,
     audius_stream_url |-> payload.audius_stream_url]

\* A variant for a tracks table without the unique index on audius_track_id
TracksInsertError_noIndex(payload) ==
    IF payload.artist_name # UNDEF /\ ~ schema.artist_name THEN "PGRST204"
    ELSE IF \E t \in Range(tracks) : t.id = TracksNewRow(payload).id THEN "23505"
    ELSE "ok"

\* INSERT INTO tracks: every key of the payload must be a column; primary key
\* on id; unique partial index on audius_track_id (non-null values only).
\* Result: error code or "ok".
TracksInsertError(payload) ==
    IF payload.artist_name # UNDEF /\ ~ schema.artist_name THEN "PGRST204"
    ELSE IF \E t \in Range(tracks) : t.id = TracksNewRow(payload).id THEN "23505"
    ELSE IF payload.audius_track_id # NULL
            /\ \E t \in Range(tracks) : t.audius_track_id = payload.audius_track_id
         THEN "23505"
    ELSE "ok"

\* favorites: PRIMARY KEY (user_id, track_id), FK to profiles and tracks,
\* policies favorites_select_own / insert_own / delete_own.
FavIs(row, key) == row.user_id = key[1] /\ row.track_id = key[2]

FavoritesSelect(c, user, track) ==
    SelectSeq(favorites,
              LAMBDA row : FavIs(row, <<user, track>>) /\ row.user_id = AuthUid(c))

FavoritesInsertError(c, row) ==
    IF AuthUid(c) # row.user_id THEN "42501"
    ELSE IF \E f \in Range(favorites) : FavIs(f, <<row.user_id, row.track_id>>) THEN "23505"
    ELSE IF row.user_id \notin ProfileIds THEN "23503"
    ELSE IF ~ \E t \in Range(tracks) : t.id = row.track_id THEN "23503"
    ELSE "ok"

\* DELETE FROM favorites WHERE user_id = .. AND track_id = .. under favorites_delete_own
FavoritesDeleted(c, user, track) ==
    SelectSeq(favorites,
              LAMBDA row : FavIs(row, <<user, track>>) /\ row.user_id = AuthUid(c))

\* A variant that deletes the track from the favorites of every user
FavoritesAfterDelete_byTrack(c, user, track) ==
    SelectSeq(favorites, LAMBDA row : row.track_id # track)

FavoritesAfterDelete(c, user, track) ==
    SelectSeq(favorites,
              LAMBDA row : ~ (FavIs(row, <<user, track>>) /\ row.user_id = AuthUid(c)))

\* gen_random_uuid() for a playlists row
NewPlaylistId ==
    GenPlaylistIds[CHOOSE i \in 1..Len(GenPlaylistIds) :
        /\ \A row \in Range(playlists) : row.id # GenPlaylistIds[i]
        /\ \A j \in 1..(i - 1) : \E row \in Range(playlists) : row.id = GenPlaylistIds[j]]

\* INSERT INTO playlists under playlists_insert_own (auth.uid() = owner_id),
\* owner_id REFERENCES profiles
PlaylistsInsertError(c, row) ==
    IF AuthUid(c) # row.owner_id THEN "42501"
    ELSE IF row.owner_id \notin ProfileIds THEN "23503"
    ELSE "ok"

\* playlists: policy playlists_select (is_public = true OR auth.uid() = owner_id),
\* playlists_update_own (auth.uid() = owner_id).
PlaylistsSelect_noPolicy(c, id) == SelectSeq(playlists, LAMBDA row : row.id = id)

PlaylistsSelect(c, id) ==
    SelectSeq(playlists,
              LAMBDA row : row.id = id /\ (row.is_public \/ row.owner_id = AuthUid(c)))

\* UPDATE playlists SET ... WHERE id = .. under playlists_update_own: the rows
\* the statement reaches, and the table after it
PlaylistsUpdatable(c, id) ==
    SelectSeq(playlists, LAMBDA row : row.id = id /\ row.owner_id = AuthUid(c))

PlaylistsAfterUpdate(c, id, updateData) ==
    [n \in 1..Len(playlists) |->
        IF playlists[n].id = id /\ playlists[n].owner_id = AuthUid(c)
        THEN [playlists[n] EXCEPT
                !.description = IF updateData.description = UNDEF THEN @
                                ELSE updateData.description,
                !.is_public = IF updateData.is_public = UNDEF THEN @
                              ELSE updateData.is_public = "true"]
        ELSE playlists[n]]

\* profiles: policy profiles_select_all (USING true)
ProfilesSelect(c, userId) == {row \in profiles : row.user_id = userId}

\* playlist_items: UNIQUE (playlist_id, track_id); policy playlist_items_insert_own,
\* playlist_items_select.
ItemIs(row, key) == row.playlist_id = key[1] /\ row.track_id = key[2]

\* The insert returns the new row joined with its track, artist_name among
\* the track's columns: the statement fails as a whole without that column.
PlaylistItemsInsertError(c, row) ==
    IF ~ schema.artist_name THEN "42703"
    ELSE IF ~ \E p \in Range(playlists) : p.id = row.playlist_id /\ p.owner_id = AuthUid(c)
    THEN "42501"
    ELSE IF \E i \in Range(playlist_items) : ItemIs(i, <<row.playlist_id, row.track_id>>)
    THEN "23505"
    ELSE IF ~ \E t \in Range(tracks) : t.id = row.track_id THEN "23503"
    ELSE "ok"

\* The rows of playlist p that client c may see, each with its added_at (a
\* row's place in the table's added_at order) and joined with its track
\* through track_id (tracks carries no policy).
PlaylistItemsWithTrack(c, p) ==
    LET stamped == [n \in 1..Len(playlist_items) |->
                        [row |-> playlist_items[n], added_at |-> n]]
        visible == SelectSeq(stamped,
                             LAMBDA s :
                                 /\ s.row.playlist_id = p
                                 /\ \E pl \in Range(playlists) :
                                       pl.id = s.row.playlist_id
                                       /\ (pl.is_public \/ pl.owner_id = AuthUid(c)))
    IN [k \in 1..Len(visible) |->
            [id |-> visible[k].row.id,
             added_at |-> visible[k].added_at,
             track |-> TracksById(visible[k].row.track_id)]]

----------------------------------------------------------------------------
(* Requests *)

\* a || b on strings: '', null and undefined are falsy
OrStr(a, b) == IF a \in {UNDEF, NULL, ""} THEN b ELSE a

IdleReq ==
    [kind |-> "none", pc |-> "idle", token |-> NoToken,
     user |-> NULL,          \* req.user.id
     supabase |-> NoClient,  \* req.supabase
     body |-> <<>>, param |-> NULL,
     trackId |-> NULL,       \* local variable trackId / track_id of the handler
     code |-> "",            \* code of the last data layer error the handler saw
     made |-> <<>>,          \* the tracks row the handler inserted, if any
     probes |-> 0,           \* calls of ensureTablesExist
     text |-> "text",        \* how the provider words an error this request meets
     status |-> 0, error |-> "", data |-> <<>>,
     idp |-> "none",         \* what the identity provider answered
     q |-> {},               \* queries issued: the client and the token they carried
     before |-> {},          \* requests already answered when this one arrived
     snap |-> <<>>]          \* facts of the store when this one arrived

\* res.status(code).json({error: ...}) and return
Respond(rec, code, err) == [rec EXCEPT !.pc = "done", !.status = code, !.error = err]

\* A query of request record rec through client c
Issue(rec, c) == [rec EXCEPT !.q = @ \cup {[client |-> c, token |-> ClientToken(c)]}]

Done == {r \in Reqs : req[r].pc = "done"}

\* What the store held for the request's target when the request arrived
Snapshot(kind, tok, body, param) ==
    CASE kind = "addFavorite" ->
            [track |-> TracksById(body.track_id) # <<>>,
             member |-> \E f \in Range(favorites) :
                            FavIs(f, <<TokenUser(tok), body.track_id>>),
             count |-> Len(favorites),
             clash |-> \E t \in Range(tracks) :
                            /\ t.id # body.track_id
                            /\ t.audius_track_id = OrStr(body.audius_track_id, NULL)
                            /\ t.audius_track_id # NULL]
      [] kind = "removeFavorite" ->
            [track |-> TracksById(param) # <<>>,
             member |-> \E f \in Range(favorites) : FavIs(f, <<TokenUser(tok), param>>),
             count |-> Len(favorites)]
      [] kind = "addTrackToPlaylist" ->
            [track |-> TracksByAudius(body.audius_track_id) # <<>>,
             member |-> \E i \in Range(playlist_items) : \E t \in Range(tracks) :
                            /\ t.audius_track_id = body.audius_track_id
                            /\ ItemIs(i, <<param, t.id>>),
             count |-> Len(SelectSeq(playlist_items, LAMBDA i : i.playlist_id = param))]
      [] kind = "createPlaylist" -> [count |-> Len(playlists)]
      [] OTHER -> <<>>

\* The request reaches authenticateToken: the token is taken from the
\* Authorization header; without one the answer is 401, otherwise the
\* identity provider is asked (await).
ArriveText(r, kind, body, param, text) ==
    /\ req[r].pc = "idle"
    /\ \A s \in 1..(r - 1) : req[s].pc # "idle"
    /\ \E tok \in Tokens \cup {NoToken} :
        LET rec == [IdleReq EXCEPT !.kind = kind, !.token = tok, !.body = body,
                                   !.param = param, !.before = Done,
                                   !.text = text,
                                   !.snap = Snapshot(kind, tok, body, param)]
        IN req' = [req EXCEPT ![r] =
                    IF tok = NoToken
                    THEN Respond(rec, 401, "Access token is required")
                    ELSE [rec EXCEPT !.pc = "auth", !.idp = "called"]]
    /\ UNCHANGED <<db, clients>>

Arrive(r, kind, body, param) == ArriveText(r, kind, body, param, IdleReq.text)

\* error.message of a data layer error: what the provider writes about the
\* error code, in the provider's wording
ProviderMessage(code, text) == <<code, text>>

\* res.status(500).json({error: '...', details: error.message}): the body of
\* an answer; details is written out for the answers to a data layer error
Body(rec) ==
    [error |-> rec.error,
     details |-> IF rec.status = 500 /\ rec.code # ""
                 THEN ProviderMessage(rec.code, rec.text) ELSE <<>>]

\* supabaseAdmin.auth.getUser(token): the user, an error, or an exception
IdpOutcomes(tok) ==
    (IF TokenUser(tok) # NULL THEN {"user"} ELSE {"error"}) \cup {"throws"}

\* ---- synchronous prefix of each handler: validation up to the first await

addFavorite_validate(rec) ==
    IF rec.supabase = NoClient
    THEN Respond(rec, 500, "Authentication context not available")
    ELSE IF rec.body.track_id \in {UNDEF, NULL, ""} \/ ~ uuidRegex(rec.body.track_id)
    THEN Respond(rec, 400, "Valid track_id (UUID) is required")
    ELSE [rec EXCEPT !.pc = "schema", !.trackId = rec.body.track_id]

removeFavorite_validate(rec) ==
    IF rec.supabase = NoClient
    THEN Respond(rec, 500, "Authentication context not available")
    ELSE IF ~ uuidRegex(rec.param)
    THEN Respond(rec, 400, "Invalid track ID format")
    ELSE [rec EXCEPT !.pc = "rf_delete"]

\* title.trim()
Trim(str) ==
    CASE str = " " -> ""
      [] str = " Song A " -> "Song A"
      [] OTHER -> str

addTrackToPlaylist_validate(rec) ==
    IF rec.supabase = NoClient
    THEN Respond(rec, 500, "Authentication context not available")
    ELSE IF rec.body.title \in {UNDEF, NULL, ""} \/ Trim(rec.body.title) = ""
    THEN Respond(rec, 400, "Track title is required and must be a non-empty string")
    ELSE IF rec.body.audius_track_id \in {UNDEF, NULL, ""}
    THEN Respond(rec, 400, "audius_track_id is required and must be a string")
    ELSE IF rec.body.audius_stream_url \in {UNDEF, NULL, ""}
    THEN Respond(rec, 400, "audius_stream_url is required and must be a string")
    ELSE IF rec.body.duration_seconds # NoNum /\ rec.body.duration_seconds < 0
    THEN Respond(rec, 400, "duration_seconds must be a non-negative number")
    ELSE IF ~ uuidRegex(rec.param)
    THEN Respond(rec, 400, "Invalid playlist ID format")
    ELSE [rec EXCEPT !.pc = "schema"]

\* typeof of a JSON value of a request body, written as its JSON text
typeof(v) ==
    CASE v = UNDEF -> "undefined"
      [] v = NULL -> "object"
      [] v \in {"true", "false"} -> "boolean"
      [] v \in {"7"} -> "number"
      [] OTHER -> "string"

\* A variant that leaves the format of the id to the data layer
updatePlaylist_validate_anyId(rec) ==
    IF rec.supabase = NoClient
    THEN Respond(rec, 500, "Authentication context not available")
    ELSE IF rec.body.description = UNDEF /\ rec.body.is_public = UNDEF
    THEN Respond(rec, 400, "At least one field (description or is_public) must be provided")
    ELSE IF rec.body.description # UNDEF /\ typeof(rec.body.description) # "string"
    THEN Respond(rec, 400, "Description must be a string")
    ELSE IF rec.body.is_public # UNDEF /\ typeof(rec.body.is_public) # "boolean"
    THEN Respond(rec, 400, "is_public must be a boolean")
    ELSE [rec EXCEPT !.pc = "up_playlist"]

updatePlaylist_validate(rec) ==
    IF rec.supabase = NoClient
    THEN Respond(rec, 500, "Authentication context not available")
    ELSE IF ~ uuidRegex(rec.param)
    THEN Respond(rec, 400, "Invalid playlist ID format")
    ELSE IF rec.body.description = UNDEF /\ rec.body.is_public = UNDEF
    THEN Respond(rec, 400, "At least one field (description or is_public) must be provided")
    ELSE IF rec.body.description # UNDEF /\ typeof(rec.body.description) # "string"
    THEN Respond(rec, 400, "Description must be a string")
    ELSE IF rec.body.is_public # UNDEF /\ typeof(rec.body.is_public) # "boolean"
    THEN Respond(rec, 400, "is_public must be a boolean")
    ELSE [rec EXCEPT !.pc = "up_playlist"]

getPlaylistWithItems_validate(rec) ==
    IF rec.supabase = NoClient
    THEN Respond(rec, 500, "Authentication context not available")
    ELSE IF ~ uuidRegex(rec.param)
    THEN Respond(rec, 400, "Invalid playlist ID format")
    ELSE [rec EXCEPT !.pc = "gp_playlist"]

\* name.trim() on a sequence of characters
RECURSIVE TrimChars(_)
TrimChars(name) ==
    IF name = <<>> THEN name
    ELSE IF Head(name) = " " THEN TrimChars(Tail(name))
    ELSE IF name[Len(name)] = " " THEN TrimChars(SubSeq(name, 1, Len(name) - 1))
    ELSE name

\* /^[a-zA-Z0-9_-]+$/.test(username), for the characters the names here use
UsernameChars == {"a", "b", "n", "u", "s", "e", "r", "A", "B", "_", "1", "2"}

MaxUsernameLength == 50
MaxDisplayNameLength == 100

Has(body, field) == field \in DOMAIN body

\* router.put('/') of the profile router, up to the update: a field the body
\* does not have is undefined
updateProfile_validate(rec) ==
    LET body == rec.body
        blank(field) == ~ Has(body, field) \/ Len(body[field]) = 0
    IN IF blank("username") /\ blank("display_name")
       THEN Respond(rec, 400, "At least one field (username or display_name) is required")
       ELSE IF Has(body, "username") /\ Len(TrimChars(body.username)) = 0
       THEN Respond(rec, 400, "Username must be a non-empty string")
       ELSE IF Has(body, "username") /\ Len(body.username) > MaxUsernameLength
       THEN Respond(rec, 400, "Username must be 50 characters or less")
       ELSE IF Has(body, "username")
               /\ \E n \in 1..Len(body.username) : body.username[n] \notin UsernameChars
       THEN Respond(rec, 400, "Username can only contain letters, numbers, underscores, and hyphens")
       ELSE IF Has(body, "display_name") /\ Len(TrimChars(body.display_name)) = 0
       THEN Respond(rec, 400, "Display name must be a non-empty string")
       ELSE IF Has(body, "display_name") /\ Len(body.display_name) > MaxDisplayNameLength
       THEN Respond(rec, 400, "Display name must be 100 characters or less")
       ELSE [rec EXCEPT !.pc = "pu_update"]

\* A variant without the limit on the length of the name
createPlaylist_validate_noLimit(rec) ==
    IF rec.supabase = NoClient
    THEN Respond(rec, 500, "Authentication context not available")
    ELSE IF Len(rec.body.name) = 0 \/ Len(TrimChars(rec.body.name)) = 0
    THEN Respond(rec, 400, "Playlist name is required and must be a non-empty string")
    ELSE IF rec.body.is_public \notin {UNDEF, "true", "false"}
    THEN Respond(rec, 400, "is_public must be a boolean")
    ELSE [rec EXCEPT !.pc = "cp_profile"]

createPlaylist_validate(rec) ==
    IF rec.supabase = NoClient
    THEN Respond(rec, 500, "Authentication context not available")
    ELSE IF Len(rec.body.name) = 0 \/ Len(TrimChars(rec.body.name)) = 0
    THEN Respond(rec, 400, "Playlist name is required and must be a non-empty string")
    ELSE IF Len(rec.body.name) > MaxNameLength
    THEN Respond(rec, 400, "Playlist name must be 100 characters or less")
    ELSE IF rec.body.is_public \notin {UNDEF, "true", "false"}
    THEN Respond(rec, 400, "is_public must be a boolean")
    ELSE [rec EXCEPT !.pc = "cp_profile"]

getFavorites_validate(rec) ==
    IF rec.supabase = NoClient
    THEN Respond(rec, 500, "Authentication context not available")
    ELSE [rec EXCEPT !.pc = "gf_select"]

\* next(): the route's handler runs up to its first await
Handler(rec) ==
    CASE rec.kind = "addFavorite" -> addFavorite_validate(rec)
      [] rec.kind = "createPlaylist" -> createPlaylist_validate(rec)
      [] rec.kind = "removeFavorite" -> removeFavorite_validate(rec)
      [] rec.kind = "addTrackToPlaylist" -> addTrackToPlaylist_validate(rec)
      [] rec.kind = "updatePlaylist" -> updatePlaylist_validate(rec)
      [] rec.kind = "getPlaylistWithItems" -> getPlaylistWithItems_validate(rec)
      [] rec.kind = "getProfile" -> [rec EXCEPT !.pc = "pr_select"]
      [] rec.kind = "updateProfile" -> updateProfile_validate(rec)
      [] rec.kind = "getFavorites" -> getFavorites_validate(rec)
      [] OTHER -> rec

\* A variant that keeps one client object and rewrites its header on each call
createClient_shared(r, tok) == [id |-> 1, clients |-> [clients EXCEPT ![1] = tok]]

\* createClient(url, key, {global: {headers: {Authorization: `Bearer ${token}`}}}):
\* a new client object per call; its identity is the request that made it.
createClient(r, tok) == [id |-> r, clients |-> [clients EXCEPT ![r] = tok]]

\* A variant that calls next() although the identity provider answered an error
authenticateToken_lenient(r) ==
    /\ req[r].pc = "auth"
    /\ \E out \in IdpOutcomes(req[r].token) :
        LET rec == [req[r] EXCEPT !.idp = out] IN
        IF out = "throws"
        THEN /\ req' = [req EXCEPT ![r] = Respond(rec, 401, "Authentication failed")]
             /\ UNCHANGED clients
        ELSE LET made == createClient(r, rec.token) IN
             /\ clients' = made.clients
             /\ req' = [req EXCEPT ![r] =
                          Handler([rec EXCEPT !.user = TokenUser(rec.token),
                                              !.supabase = made.id])]
    /\ UNCHANGED db

\* authenticateToken after the identity provider answered
authenticateToken(r) ==
    /\ req[r].pc = "auth"
    /\ \E out \in IdpOutcomes(req[r].token) :
        LET rec == [req[r] EXCEPT !.idp = out] IN
        IF out = "throws"
        THEN /\ req' = [req EXCEPT ![r] = Respond(rec, 401, "Authentication failed")]
             /\ UNCHANGED clients
        ELSE IF out = "error"
        THEN /\ req' = [req EXCEPT ![r] = Respond(rec, 401, "Invalid or expired token")]
             /\ UNCHANGED clients
        ELSE LET made == createClient(r, rec.token) IN
             /\ clients' = made.clients
             /\ req' = [req EXCEPT ![r] =
                          Handler([rec EXCEPT !.user = TokenUser(rec.token),
                                              !.supabase = made.id])]
    /\ UNCHANGED db

----------------------------------------------------------------------------
(* Schema guard *)

\* code of the existence probe of a table: select(...).limit(1)
ProbeError(table) == IF schema[table] THEN "ok" ELSE "42P01"

\* ensureTablesExist(supabase): {success, error}
schemaCheck ==
    IF ProbeError("tracks") = "42P01" THEN FALSE
    ELSE IF ProbeError("playlist_items") = "42P01" THEN FALSE
    ELSE IF ProbeError("favorites") = "42P01" THEN FALSE
    ELSE TRUE

AfterSchema(kind) ==
    CASE kind = "addFavorite" -> "af_track"
      [] kind = "addTrackToPlaylist" -> "at_playlist"
      [] OTHER -> "done"

\* the error text ensureTablesExist returns with success: false
schemaCheckError == "Database schema not initialized. Contact administrator."

\* A variant of the guard that takes every answer of the probes for success
ensureTablesExist_lenient(r) ==
    /\ req[r].pc = "schema"
    /\ LET rec == [Issue(req[r], req[r].supabase) EXCEPT !.probes = @ + 1] IN
       req' = [req EXCEPT ![r] = [rec EXCEPT !.pc = AfterSchema(rec.kind)]]
    /\ UNCHANGED <<db, clients>>

\* await ensureTablesExist(supabase) in addFavorite and addTrackToPlaylist.
\* Its probes read only which tables exist, which no request changes, so they
\* are one step.
ensureTablesExist(r) ==
    /\ req[r].pc = "schema"
    /\ LET rec == [Issue(req[r], req[r].supabase) EXCEPT !.probes = @ + 1] IN
       req' = [req EXCEPT ![r] =
                 IF ~ schemaCheck
                 THEN [Respond(rec, 500, "Database schema error") EXCEPT
                          !.data = <<[details |-> schemaCheckError]>>]
                 ELSE [rec EXCEPT !.pc = AfterSchema(rec.kind)]]
    /\ UNCHANGED <<db, clients>>

----------------------------------------------------------------------------
(* FavoritesController *)

\* a || b on numbers: 0, null and undefined are falsy
OrNum(a, b) == IF a = NoNum \/ a = 0 THEN b ELSE a

\* trackData of addFavorite
trackData(track_id, body) ==
    [id |-> track_id,
     title |-> OrStr(body.title, "Untitled Track"),
     artist_name |-> OrStr(body.artist_name, OrStr(body.artist, NULL)),
     duration_seconds |-> OrNum(body.duration_seconds, OrNum(body.duration, NoNum)),
     audius_track_id |-> OrStr(body.audius_track_id, NULL),
     audius_stream_url |-> OrStr(body.audius_stream_url, NULL)]

\* A variant that creates the track without looking it up
addFavorite_checkTrack_always(r) ==
    /\ req[r].pc = "af_track"
    /\ req' = [req EXCEPT ![r] =
                 [Issue(req[r], req[r].supabase) EXCEPT !.pc = "af_insert_track"]]
    /\ UNCHANGED <<db, clients>>

\* select('id').eq('id', track_id).maybeSingle() on tracks
addFavorite_checkTrack(r) ==
    /\ req[r].pc = "af_track"
    /\ LET rec == Issue(req[r], req[r].supabase)
           existingTrack == TracksById(rec.trackId)
       IN req' = [req EXCEPT ![r] =
                    [rec EXCEPT !.pc = IF Len(existingTrack) = 1 THEN "af_favorite"
                                       ELSE "af_insert_track"]]
    /\ UNCHANGED <<db, clients>>

\* insert([trackData]) into tracks; an error answers 500
addFavorite_insertTrack(r) ==
    /\ req[r].pc = "af_insert_track"
    /\ LET rec == Issue(req[r], req[r].supabase)
           payload == trackData(rec.trackId, rec.body)
           trackInsertError == TracksInsertError(payload)
       IN IF trackInsertError # "ok"
          THEN /\ req' = [req EXCEPT ![r] =
                            Respond([rec EXCEPT !.code = trackInsertError], 500,
                                    "Failed to create track")]
               /\ UNCHANGED tracks
          ELSE /\ tracks' = Append(tracks, TracksNewRow(payload))
               /\ req' = [req EXCEPT ![r] =
                            [rec EXCEPT !.pc = "af_favorite",
                                        !.made = <<TracksNewRow(payload)>>]]
    /\ UNCHANGED <<schema, profiles, playlists, playlist_items, favorites, clients>>

\* A variant that rejects a track that is already a favorite
addFavorite_checkFavorite_conflict(r) ==
    /\ req[r].pc = "af_favorite"
    /\ LET rec == Issue(req[r], req[r].supabase)
           existingFavorite == FavoritesSelect(rec.supabase, rec.user, rec.trackId)
       IN req' = [req EXCEPT ![r] =
                    IF Len(existingFavorite) = 1
                    THEN Respond(rec, 409, "Track already in favorites")
                    ELSE [rec EXCEPT !.pc = "af_insert"]]
    /\ UNCHANGED <<db, clients>>

\* select(...).eq('user_id', userId).eq('track_id', track_id).maybeSingle()
addFavorite_checkFavorite(r) ==
    /\ req[r].pc = "af_favorite"
    /\ LET rec == Issue(req[r], req[r].supabase)
           existingFavorite == FavoritesSelect(rec.supabase, rec.user, rec.trackId)
       IN req' = [req EXCEPT ![r] =
                    IF Len(existingFavorite) = 1
                    THEN [Respond(rec, 200, "") EXCEPT !.data = existingFavorite]
                    ELSE [rec EXCEPT !.pc = "af_insert"]]
    /\ UNCHANGED <<db, clients>>

\* A variant without the branch for the unique violation
addFavorite_insertFavorite_noRetry(r) ==
    /\ req[r].pc = "af_insert"
    /\ LET rec == Issue(req[r], req[r].supabase)
           row == [user_id |-> rec.user, track_id |-> rec.trackId]
           insertError == FavoritesInsertError(rec.supabase, row)
       IN IF insertError = "ok"
          THEN /\ favorites' = Append(favorites, row)
               /\ req' = [req EXCEPT ![r] = [Respond(rec, 201, "") EXCEPT !.data = <<row>>]]
          ELSE /\ UNCHANGED favorites
               /\ req' = [req EXCEPT ![r] =
                            Respond([rec EXCEPT !.code = insertError], 500,
                                    "Failed to add favorite")]
    /\ UNCHANGED <<schema, profiles, tracks, playlists, playlist_items, clients>>

\* insert([{user_id, track_id}]) into favorites
addFavorite_insertFavorite(r) ==
    /\ req[r].pc = "af_insert"
    /\ LET rec == Issue(req[r], req[r].supabase)
           row == [user_id |-> rec.user, track_id |-> rec.trackId]
           insertError == FavoritesInsertError(rec.supabase, row)
       IN IF insertError = "ok"
          THEN /\ favorites' = Append(favorites, row)
               /\ req' = [req EXCEPT ![r] = [Respond(rec, 201, "") EXCEPT !.data = <<row>>]]
          ELSE /\ UNCHANGED favorites
               /\ req' = [req EXCEPT ![r] =
                            IF insertError = "23505"
                            THEN [rec EXCEPT !.pc = "af_refetch", !.code = insertError]
                            ELSE Respond([rec EXCEPT !.code = insertError], 500,
                                         "Failed to add favorite")]
    /\ UNCHANGED <<schema, profiles, tracks, playlists, playlist_items, clients>>

\* the concurrent-insert branch: fetch the existing favorite and answer 200
addFavorite_refetch(r) ==
    /\ req[r].pc = "af_refetch"
    /\ LET rec == Issue(req[r], req[r].supabase)
           concurrentFavorite == FavoritesSelect(rec.supabase, rec.user, rec.trackId)
       IN req' = [req EXCEPT ![r] =
                    [Respond(rec, 200, "") EXCEPT !.data =
                        IF Len(concurrentFavorite) = 1 THEN concurrentFavorite
                        ELSE <<[user_id |-> rec.user, track_id |-> rec.trackId]>>]]
    /\ UNCHANGED <<db, clients>>

\* delete().eq('user_id', userId).eq('track_id', trackId).select()
removeFavorite_noCheck(r) ==
    /\ req[r].pc = "rf_delete"
    /\ LET rec == Issue(req[r], req[r].supabase)
       IN /\ favorites' = FavoritesAfterDelete(rec.supabase, rec.user, rec.param)
          /\ req' = [req EXCEPT ![r] = Respond(rec, 200, "")]
    /\ UNCHANGED <<schema, profiles, tracks, playlists, playlist_items, clients>>

\* delete().eq('user_id', userId).eq('track_id', trackId).select(): 404 when
\* no row was deleted
removeFavorite(r) ==
    /\ req[r].pc = "rf_delete"
    /\ LET rec == Issue(req[r], req[r].supabase)
           data == FavoritesDeleted(rec.supabase, rec.user, rec.param)
       IN /\ favorites' = FavoritesAfterDelete(rec.supabase, rec.user, rec.param)
          /\ req' = [req EXCEPT ![r] =
                       IF Len(data) = 0 THEN Respond(rec, 404, "Favorite not found")
                       ELSE Respond(rec, 200, "")]
    /\ UNCHANGED <<schema, profiles, tracks, playlists, playlist_items, clients>>

\* bodies of POST /favorites
FavoriteBodies ==
    [track_id : ClientTrackIds \cup {t.id : t \in Range(tracks)} \cup {"not-a-uuid"},
     title : {UNDEF}, artist : {UNDEF}, artist_name : {UNDEF},
     duration : {NoNum}, duration_seconds : {NoNum},
     audius_track_id : {UNDEF} \cup AudiusIds, audius_stream_url : {UNDEF}]

\* router.post('/', authenticateToken, addFavorite)
POST_favorites(r) == \E body \in FavoriteBodies : Arrive(r, "addFavorite", body, NULL)

\* router.delete('/:trackId', authenticateToken, removeFavorite)
DELETE_favorites(r) ==
    \E trackId \in ClientTrackIds \cup {t.id : t \in Range(tracks)} :
        Arrive(r, "removeFavorite", <<>>, trackId)

----------------------------------------------------------------------------
(* PlaylistsController *)

\* A variant without the ownership comparison
addTrackToPlaylist_checkPlaylist_noOwner(r) ==
    /\ req[r].pc = "at_playlist"
    /\ LET rec == Issue(req[r], req[r].supabase)
           playlist == PlaylistsSelect(rec.supabase, rec.param)
       IN req' = [req EXCEPT ![r] =
                    IF Len(playlist) # 1
                    THEN Respond([rec EXCEPT !.code = "PGRST116"], 404, "Playlist not found")
                    ELSE [rec EXCEPT !.pc = "at_track"]]
    /\ UNCHANGED <<db, clients>>

\* select('id, owner_id').eq('id', playlistId).single(), then the ownership
\* check, in addTrackToPlaylist
addTrackToPlaylist_checkPlaylist(r) ==
    /\ req[r].pc = "at_playlist"
    /\ LET rec == Issue(req[r], req[r].supabase)
           playlist == PlaylistsSelect(rec.supabase, rec.param)
       IN req' = [req EXCEPT ![r] =
                    IF Len(playlist) # 1
                    THEN Respond([rec EXCEPT !.code = "PGRST116"], 404, "Playlist not found")
                    ELSE IF playlist[1].owner_id # rec.user
                    THEN Respond(rec, 403, "Permission denied")
                    ELSE [rec EXCEPT !.pc = "at_track"]]
    /\ UNCHANGED <<db, clients>>

\* A variant that always creates the track
addTrackToPlaylist_checkTrack_always(r) ==
    /\ req[r].pc = "at_track"
    /\ req' = [req EXCEPT ![r] =
                 [Issue(req[r], req[r].supabase) EXCEPT !.pc = "at_insert_track"]]
    /\ UNCHANGED <<db, clients>>

\* A variant that brings the title of the row it finds up to date
addTrackToPlaylist_checkTrack_refresh(r) ==
    /\ req[r].pc = "at_track"
    /\ LET rec == Issue(req[r], req[r].supabase)
           existingTrack == TracksByAudius(rec.body.audius_track_id)
       IN /\ req' = [req EXCEPT ![r] =
                       IF Len(existingTrack) = 1
                       THEN [rec EXCEPT !.pc = "at_item", !.trackId = existingTrack[1].id]
                       ELSE [rec EXCEPT !.pc = "at_insert_track"]]
          /\ tracks' = [n \in 1..Len(tracks) |->
                          IF tracks[n].audius_track_id = rec.body.audius_track_id
                          THEN [tracks[n] EXCEPT !.title = rec.body.title]
                          ELSE tracks[n]]
    /\ UNCHANGED <<schema, profiles, playlists, playlist_items, favorites, clients>>

\* select('id').eq('audius_track_id', audius_track_id).maybeSingle()
addTrackToPlaylist_checkTrack(r) ==
    /\ req[r].pc = "at_track"
    /\ LET rec == Issue(req[r], req[r].supabase)
           existingTrack == TracksByAudius(rec.body.audius_track_id)
       IN req' = [req EXCEPT ![r] =
                    IF Len(existingTrack) = 1
                    THEN [rec EXCEPT !.pc = "at_item", !.trackId = existingTrack[1].id]
                    ELSE [rec EXCEPT !.pc = "at_insert_track"]]
    /\ UNCHANGED <<db, clients>>

\* trackInsertData of addTrackToPlaylist
trackInsertData(body) ==
    [id |-> UNDEF,
     title |-> Trim(body.title),
     artist_name |-> IF body.artist_name \in {UNDEF, NULL, ""} THEN UNDEF
                     ELSE body.artist_name,
     duration_seconds |-> OrNum(body.duration_seconds, NoNum),
     audius_track_id |-> body.audius_track_id,
     audius_stream_url |-> body.audius_stream_url]

\* insert([trackInsertData]) into tracks; an error is thrown to the catch
addTrackToPlaylist_insertTrack(r) ==
    /\ req[r].pc = "at_insert_track"
    /\ LET rec == Issue(req[r], req[r].supabase)
           payload == trackInsertData(rec.body)
           insertTrackError == TracksInsertError(payload)
       IN IF insertTrackError # "ok"
          THEN /\ req' = [req EXCEPT ![r] =
                            Respond([rec EXCEPT !.code = insertTrackError], 500,
                                    "Failed to add track to playlist")]
               /\ UNCHANGED tracks
          ELSE /\ tracks' = Append(tracks, TracksNewRow(payload))
               /\ req' = [req EXCEPT ![r] =
                            [rec EXCEPT !.pc = "at_item",
                                        !.trackId = TracksNewRow(payload).id,
                                        !.made = <<TracksNewRow(payload)>>]]
    /\ UNCHANGED <<schema, profiles, playlists, playlist_items, favorites, clients>>

\* A variant without the branch for the unique violation
addTrackToPlaylist_insertItem_noConflict(r) ==
    /\ req[r].pc = "at_item"
    /\ LET rec == Issue(req[r], req[r].supabase)
           row == [id |-> Len(playlist_items) + 1, playlist_id |-> rec.param,
                   track_id |-> rec.trackId]
           insertItemError == PlaylistItemsInsertError(rec.supabase, row)
       IN IF insertItemError = "ok"
          THEN /\ playlist_items' = Append(playlist_items, row)
               /\ req' = [req EXCEPT ![r] = [Respond(rec, 201, "") EXCEPT !.data = <<row>>]]
          ELSE /\ UNCHANGED playlist_items
               /\ req' = [req EXCEPT ![r] =
                            Respond([rec EXCEPT !.code = insertItemError], 500,
                                    "Failed to add track to playlist")]
    /\ UNCHANGED <<schema, profiles, tracks, playlists, favorites, clients>>

\* insert([{playlist_id, track_id}]) into playlist_items
addTrackToPlaylist_insertItem(r) ==
    /\ req[r].pc = "at_item"
    /\ LET rec == Issue(req[r], req[r].supabase)
           row == [id |-> Len(playlist_items) + 1, playlist_id |-> rec.param,
                   track_id |-> rec.trackId]
           insertItemError == PlaylistItemsInsertError(rec.supabase, row)
       IN IF insertItemError = "ok"
          THEN /\ playlist_items' = Append(playlist_items, row)
               /\ req' = [req EXCEPT ![r] = [Respond(rec, 201, "") EXCEPT !.data = <<row>>]]
          ELSE /\ UNCHANGED playlist_items
               /\ req' = [req EXCEPT ![r] =
                            IF insertItemError = "23505"
                            THEN Respond([rec EXCEPT !.code = insertItemError], 409,
                                         "Track already in playlist")
                            ELSE Respond([rec EXCEPT !.code = insertItemError], 500,
                                         "Failed to add track to playlist")]
    /\ UNCHANGED <<schema, profiles, tracks, playlists, favorites, clients>>

\* select('id, owner_id').eq('id', playlistId).single(), then the ownership
\* check, in updatePlaylist
updatePlaylist_checkPlaylist(r) ==
    /\ req[r].pc = "up_playlist"
    /\ LET rec == Issue(req[r], req[r].supabase)
           playlist == PlaylistsSelect(rec.supabase, rec.param)
       IN req' = [req EXCEPT ![r] =
                    IF Len(playlist) # 1
                    THEN Respond([rec EXCEPT !.code = "PGRST116"], 404, "Playlist not found")
                    ELSE IF playlist[1].owner_id # rec.user
                    THEN Respond(rec, 403, "Permission denied")
                    ELSE [rec EXCEPT !.pc = "up_update"]]
    /\ UNCHANGED <<db, clients>>

\* A variant that writes the defaults for the fields the body leaves out
updatePlaylist_update_replace(r) ==
    /\ req[r].pc = "up_update"
    /\ LET rec == Issue(req[r], req[r].supabase)
           updateData == [description |-> IF rec.body.description = UNDEF THEN ""
                                          ELSE rec.body.description,
                          is_public |-> IF rec.body.is_public = UNDEF THEN "true"
                                        ELSE rec.body.is_public]
           reached == PlaylistsUpdatable(rec.supabase, rec.param)
       IN /\ playlists' = PlaylistsAfterUpdate(rec.supabase, rec.param, updateData)
          /\ req' = [req EXCEPT ![r] =
                       IF Len(reached) # 1
                       THEN Respond([rec EXCEPT !.code = "PGRST116"], 500,
                                    "Failed to update playlist")
                       ELSE [Respond(rec, 200, "") EXCEPT !.data =
                                SelectSeq(PlaylistsAfterUpdate(rec.supabase, rec.param,
                                                               updateData),
                                          LAMBDA row : row.id = rec.param)]]
    /\ UNCHANGED <<schema, profiles, tracks, playlist_items, favorites, clients>>

\* update(updateData).eq('id', playlistId).select(...).single()
updatePlaylist_update(r) ==
    /\ req[r].pc = "up_update"
    /\ LET rec == Issue(req[r], req[r].supabase)
           updateData == [description |-> rec.body.description,
                          is_public |-> rec.body.is_public]
           reached == PlaylistsUpdatable(rec.supabase, rec.param)
       IN /\ playlists' = PlaylistsAfterUpdate(rec.supabase, rec.param, updateData)
          /\ req' = [req EXCEPT ![r] =
                       IF Len(reached) # 1
                       THEN Respond([rec EXCEPT !.code = "PGRST116"], 500,
                                    "Failed to update playlist")
                       ELSE [Respond(rec, 200, "") EXCEPT !.data =
                                SelectSeq(PlaylistsAfterUpdate(rec.supabase, rec.param,
                                                               updateData),
                                          LAMBDA row : row.id = rec.param)]]
    /\ UNCHANGED <<schema, profiles, tracks, playlist_items, favorites, clients>>

\* A variant that goes on to the items although no playlist row came back
getPlaylistWithItems_fetchPlaylist_ignoringError(r) ==
    /\ req[r].pc = "gp_playlist"
    /\ LET rec == Issue(req[r], req[r].supabase)
           playlist == PlaylistsSelect(rec.supabase, rec.param)
       IN req' = [req EXCEPT ![r] =
                    IF Len(playlist) = 1
                       /\ ~ playlist[1].is_public /\ playlist[1].owner_id # rec.user
                    THEN Respond(rec, 403, "Permission denied")
                    ELSE [rec EXCEPT !.pc = "gp_items", !.data = playlist]]
    /\ UNCHANGED <<db, clients>>

\* select(...).eq('id', playlistId).single(), then the private-playlist check
getPlaylistWithItems_fetchPlaylist(r) ==
    /\ req[r].pc = "gp_playlist"
    /\ LET rec == Issue(req[r], req[r].supabase)
           playlist == PlaylistsSelect(rec.supabase, rec.param)
       IN req' = [req EXCEPT ![r] =
                    IF Len(playlist) # 1
                    THEN Respond([rec EXCEPT !.code = "PGRST116"], 404, "Playlist not found")
                    ELSE IF ~ playlist[1].is_public /\ playlist[1].owner_id # rec.user
                    THEN Respond(rec, 403, "Permission denied")
                    ELSE [rec EXCEPT !.pc = "gp_items", !.data = playlist]]
    /\ UNCHANGED <<db, clients>>

\* A variant that leaves the items in the order of the table
getPlaylistWithItems_fetchItems_unordered(r) ==
    /\ req[r].pc = "gp_items"
    /\ LET rec == Issue(req[r], req[r].supabase)
           items == PlaylistItemsWithTrack(rec.supabase, rec.param)
       IN req' = [req EXCEPT ![r] =
                    [Respond(rec, 200, "") EXCEPT !.data = rec.data \o items]]
    /\ UNCHANGED <<db, clients>>

\* select(id, added_at, track:track_id(...)).eq('playlist_id', playlistId)
\*   .order('added_at', {ascending: false})
getPlaylistWithItems_fetchItems(r) ==
    /\ req[r].pc = "gp_items"
    /\ LET rec == Issue(req[r], req[r].supabase)
           items == Reverse(PlaylistItemsWithTrack(rec.supabase, rec.param))
       IN req' = [req EXCEPT ![r] =
                    [Respond(rec, 200, "") EXCEPT !.data = rec.data \o items]]
    /\ UNCHANGED <<db, clients>>

\* bodies of POST /playlists/:playlistId/items
PlaylistItemBodies ==
    [title : {"Song A"}, duration_seconds : {NoNum}, audius_track_id : AudiusIds,
     audius_stream_url : {"http://x"}, artist_name : {UNDEF}]

\* router.post('/:playlistId/items', authenticateToken, addTrackToPlaylist)
POST_playlist_items(r) ==
    \E body \in PlaylistItemBodies : \E playlistId \in PlaylistIds :
        Arrive(r, "addTrackToPlaylist", body, playlistId)

\* bodies of PATCH /playlists/:playlistId
PlaylistPatches ==
    [description : {UNDEF, "mix"}, is_public : {UNDEF, "true", "false"}]

\* PATCH /playlists/:playlistId
PATCH_playlist(r) ==
    \E body \in PlaylistPatches : \E playlistId \in PlaylistIds :
        Arrive(r, "updatePlaylist", body, playlistId)

\* PATCH /playlists/:playlistId with only is_public in the body
VisibilityPatches == [description : {UNDEF}, is_public : {"true", "false"}]

PATCH_visibility(r) ==
    \E body \in VisibilityPatches : \E playlistId \in PlaylistIds :
        Arrive(r, "updatePlaylist", body, playlistId)

\* GET /playlists/:playlistId
GET_playlist(r) ==
    \E playlistId \in PlaylistIds : Arrive(r, "getPlaylistWithItems", <<>>, playlistId)

\* A variant that goes on to the insert whatever the profile lookup returned
createPlaylist_checkProfile_skip(r) ==
    /\ req[r].pc = "cp_profile"
    /\ req' = [req EXCEPT ![r] = [Issue(req[r], req[r].supabase) EXCEPT !.pc = "cp_insert"]]
    /\ UNCHANGED <<db, clients>>

\* select('user_id').eq('user_id', userId).single() on profiles
createPlaylist_checkProfile(r) ==
    /\ req[r].pc = "cp_profile"
    /\ LET rec == Issue(req[r], req[r].supabase)
           profile == ProfilesSelect(rec.supabase, rec.user)
       IN req' = [req EXCEPT ![r] =
                    IF profile = {}
                    THEN Respond([rec EXCEPT !.code = "PGRST116"], 404,
                                 "User profile not found")
                    ELSE [rec EXCEPT !.pc = "cp_insert"]]
    /\ UNCHANGED <<db, clients>>

\* insert([{owner_id, name, description, is_public}]) into playlists
createPlaylist_insert(r) ==
    /\ req[r].pc = "cp_insert"
    /\ LET rec == Issue(req[r], req[r].supabase)
           row == [id |-> NewPlaylistId, owner_id |-> rec.user,
                   name |-> TrimChars(rec.body.name),
                   description |-> IF rec.body.description # UNDEF
                                   THEN Trim(rec.body.description) ELSE "",
                   is_public |-> IF rec.body.is_public # UNDEF
                                 THEN rec.body.is_public = "true" ELSE TRUE]
           insertError == PlaylistsInsertError(rec.supabase, row)
       IN IF insertError = "ok"
          THEN /\ playlists' = Append(playlists, row)
               /\ req' = [req EXCEPT ![r] = [Respond(rec, 201, "") EXCEPT !.data = <<row>>]]
          ELSE /\ UNCHANGED playlists
               /\ req' = [req EXCEPT ![r] =
                            IF insertError = "42501"
                            THEN Respond([rec EXCEPT !.code = insertError], 403,
                                         "Permission denied")
                            ELSE Respond([rec EXCEPT !.code = insertError], 500,
                                         "Failed to create playlist")]
    /\ UNCHANGED <<schema, profiles, tracks, playlist_items, favorites, clients>>

\* names of POST /playlists: empty (!name, as for a body without name), blank,
\* short, padded, and around the limit
PlaylistNames ==
    {<<>>, <<" ">>, <<"a">>, <<" ", "a", " ">>,
     Repeat("a", MaxNameLength), Repeat("a", MaxNameLength + 1),
     <<" ">> \o Repeat("a", MaxNameLength)}

PlaylistBodies ==
    [name : PlaylistNames, description : {UNDEF}, is_public : {UNDEF}]

\* router.post('/', authenticateToken, createPlaylist)
POST_playlists(r) == \E body \in PlaylistBodies : Arrive(r, "createPlaylist", body, NULL)

----------------------------------------------------------------------------
(* Profile route *)

\* router.get('/', authenticateToken, ...): the profile is read through the
\* client created at module level
getProfile(r) ==
    /\ req[r].pc = "pr_select"
    /\ LET rec == Issue(req[r], ModuleClient)
           profile == ProfilesSelect(ModuleClient, rec.user)
       IN req' = [req EXCEPT ![r] =
                    IF profile = {}
                    THEN Respond([rec EXCEPT !.code = "PGRST116"], 404, "Profile not found")
                    ELSE Respond(rec, 200, "")]
    /\ UNCHANGED <<db, clients>>

\* GET /profile
GET_profile(r) == Arrive(r, "getProfile", <<>>, NULL)

----------------------------------------------------------------------------
(* Specifications *)

\* a track row created earlier by POST /favorites with only a track_id
FavoritedTrack ==
    [id |-> "T1", title |-> "Untitled Track", artist_name |-> NULL,
     duration_seconds |-> NoNum, audius_track_id |-> NULL, audius_stream_url |-> NULL]

\* a track row created earlier by POST /playlists/:playlistId/items
CatalogueTrack ==
    [id |-> "G1", title |-> "Song A", artist_name |-> NULL,
     duration_seconds |-> NoNum, audius_track_id |-> "X1",
     audius_stream_url |-> "http://x"]

\* a playlist created earlier by user A and possibly made private since
PlaylistOfA(is_public) ==
    [id |-> "P1", owner_id |-> "A", name |-> <<"R", "o", "a", "d">>, description |-> "",
     is_public |-> is_public]

\* The database after the migrations, every user registered with a profile,
\* and the rows earlier requests left.
InitWith(trackRows, playlistRows, favoriteRows) ==
    /\ schema = [tracks |-> TRUE, playlist_items |-> TRUE, favorites |-> TRUE,
                 artist_name |-> TRUE]
    /\ profiles = {ProfileOf(u) : u \in Users}
    /\ tracks \in trackRows
    /\ playlists \in playlistRows
    /\ playlist_items = <<>>
    /\ favorites \in favoriteRows
    /\ clients = [c \in Reqs \cup {AuthClient} |-> NULL]
    /\ req = [r \in Reqs |-> IdleReq]

Playlists0 == {<<PlaylistOfA(TRUE)>>, <<PlaylistOfA(FALSE)>>}

Init == InitWith({<<>>, <<FavoritedTrack>>, <<CatalogueTrack>>}, Playlists0, {<<>>})

InitFav == InitWith({<<>>, <<FavoritedTrack>>}, {<<PlaylistOfA(TRUE)>>}, {<<>>})

InitPl == InitWith({<<>>, <<CatalogueTrack>>}, Playlists0, {<<>>})

InitOwn == InitWith({<<>>}, Playlists0, {<<>>})

\* a playlist_items row left by an earlier POST /playlists/P1/items
InitRead ==
    /\ schema = [tracks |-> TRUE, playlist_items |-> TRUE, favorites |-> TRUE,
                 artist_name |-> TRUE]
    /\ profiles = {ProfileOf(u) : u \in Users}
    /\ tracks = <<CatalogueTrack>>
    /\ playlists \in Playlists0
    /\ playlist_items = <<[id |-> 1, playlist_id |-> "P1", track_id |-> "G1"]>>
    /\ favorites = <<>>
    /\ clients = [c \in Reqs \cup {AuthClient} |-> NULL]
    /\ req = [r \in Reqs |-> IdleReq]

InitAuth ==
    InitWith({<<FavoritedTrack>>}, Playlists0,
             {<<>>, <<[user_id |-> "A", track_id |-> "T1"]>>})

\* the favorites routes
NextFav ==
    \E r \in Reqs :
        \/ POST_favorites(r)
        \/ DELETE_favorites(r)
        \/ authenticateToken(r)
        \/ ensureTablesExist(r)
        \/ addFavorite_checkTrack(r)
        \/ addFavorite_insertTrack(r)
        \/ addFavorite_checkFavorite(r)
        \/ addFavorite_insertFavorite(r)
        \/ addFavorite_refetch(r)
        \/ removeFavorite(r)

SpecFav == InitFav /\ [][NextFav]_vars

\* adding tracks to playlists
NextItems ==
    \E r \in Reqs :
        \/ POST_playlist_items(r)
        \/ authenticateToken(r)
        \/ ensureTablesExist(r)
        \/ addTrackToPlaylist_checkPlaylist(r)
        \/ addTrackToPlaylist_checkTrack(r)
        \/ addTrackToPlaylist_insertTrack(r)
        \/ addTrackToPlaylist_insertItem(r)

SpecItems == InitPl /\ [][NextItems]_vars

\* the routes that change a playlist
NextOwn ==
    \E r \in Reqs :
        \/ POST_playlist_items(r)
        \/ PATCH_visibility(r)
        \/ authenticateToken(r)
        \/ ensureTablesExist(r)
        \/ addTrackToPlaylist_checkPlaylist(r)
        \/ addTrackToPlaylist_checkTrack(r)
        \/ addTrackToPlaylist_insertTrack(r)
        \/ addTrackToPlaylist_insertItem(r)
        \/ updatePlaylist_checkPlaylist(r)
        \/ updatePlaylist_update(r)

SpecOwn == InitOwn /\ [][NextOwn]_vars

\* reading a playlist while its owner changes it
NextRead ==
    \E r \in Reqs :
        \/ PATCH_visibility(r)
        \/ GET_playlist(r)
        \/ authenticateToken(r)
        \/ updatePlaylist_checkPlaylist(r)
        \/ updatePlaylist_update(r)
        \/ getPlaylistWithItems_fetchPlaylist(r)
        \/ getPlaylistWithItems_fetchItems(r)

SpecRead == InitRead /\ [][NextRead]_vars

\* authentication in front of a handler of each controller and the profile route
NextAuth ==
    \E r \in Reqs :
        \/ GET_profile(r)
        \/ DELETE_favorites(r)
        \/ GET_playlist(r)
        \/ authenticateToken(r)
        \/ getProfile(r)
        \/ removeFavorite(r)
        \/ getPlaylistWithItems_fetchPlaylist(r)
        \/ getPlaylistWithItems_fetchItems(r)

SpecAuth == InitAuth /\ [][NextAuth]_vars

\* every route
Next ==
    \E r \in Reqs :
        \/ POST_favorites(r)
        \/ DELETE_favorites(r)
        \/ POST_playlist_items(r)
        \/ PATCH_playlist(r)
        \/ GET_playlist(r)
        \/ GET_profile(r)
        \/ authenticateToken(r)
        \/ ensureTablesExist(r)
        \/ addFavorite_checkTrack(r)
        \/ addFavorite_insertTrack(r)
        \/ addFavorite_checkFavorite(r)
        \/ addFavorite_insertFavorite(r)
        \/ addFavorite_refetch(r)
        \/ removeFavorite(r)
        \/ addTrackToPlaylist_checkPlaylist(r)
        \/ addTrackToPlaylist_checkTrack(r)
        \/ addTrackToPlaylist_insertTrack(r)
        \/ addTrackToPlaylist_insertItem(r)
        \/ updatePlaylist_checkPlaylist(r)
        \/ updatePlaylist_update(r)
        \/ getPlaylistWithItems_fetchPlaylist(r)
        \/ getPlaylistWithItems_fetchItems(r)
        \/ getProfile(r)

Spec == Init /\ [][Next]_vars

----------------------------------------------------------------------------
(* Properties of the favorites routes *)

\* select(...).eq('user_id', userId).order('created_at', {ascending: false})
getFavorites_rows(c, userId) ==
    Reverse(SelectSeq(favorites,
                      LAMBDA row : row.user_id = userId /\ row.user_id = AuthUid(c)))

Answered(r) == req[r].pc = "done"

\* an authenticated addFavorite request with a well-formed track_id
IsAddFavorite(r) ==
    /\ req[r].kind = "addFavorite"
    /\ req[r].user # NULL
    /\ uuidRegex(req[r].body.track_id)

IsFavoritesRequest(r) == req[r].kind \in {"addFavorite", "removeFavorite"}

FavUser(r) == TokenUser(req[r].token)

FavTrack(r) == IF req[r].kind = "addFavorite" THEN req[r].body.track_id ELSE req[r].param

SameFavorite(k, i) ==
    /\ IsFavoritesRequest(k)
    /\ FavUser(k) = FavUser(i)
    /\ FavTrack(k) = FavTrack(i)

\* number of favorites rows (user, track)
FavoriteRows(u, t) == Cardinality({n \in 1..Len(favorites) : FavIs(favorites[n], <<u, t>>)})

\* entries for track t that GET /favorites shows to request r's principal
FavoriteEntries(r, t) ==
    LET shown == getFavorites_rows(req[r].supabase, req[r].user)
    IN Cardinality({n \in 1..Len(shown) : shown[n].track_id = t})

\* j arrived after i was answered
Successive(i, j) == i \in req[j].before

Concurrent(i, j) == ~ Successive(i, j) /\ ~ Successive(j, i)

\* a favorites request for the track of request i, by any principal
SameTrack(k, i) == IsFavoritesRequest(k) /\ FavTrack(k) = FavTrack(i)

\* no other request for the same track ran between the arrival of i and the answer to j
SequentialPair(i, j) ==
    \A k \in Reqs \ {i, j} :
        SameTrack(k, i) => (k \in req[i].before \/ j \in req[k].before)

\* no other request on the same favorite arrived after i did
NoneLater(i, j) == \A k \in Reqs \ {i, j} : SameFavorite(k, i) => k \in req[i].before

----------------------------------------------------------------------------
(* Properties of POST /playlists/:playlistId/items *)

\* an authenticated addTrackToPlaylist request by the owner of its playlist
IsOwnerAddTrack(r) ==
    /\ req[r].kind = "addTrackToPlaylist"
    /\ req[r].user # NULL
    /\ \E p \in Range(playlists) : p.id = req[r].param /\ p.owner_id = req[r].user

\* request k adds the external track of request i to the playlist of request i
SameItem(k, i) ==
    /\ req[k].kind = "addTrackToPlaylist"
    /\ req[k].param = req[i].param
    /\ req[k].body.audius_track_id = req[i].body.audius_track_id

\* number of playlist_items rows of playlist p
PlaylistCount(p) ==
    Cardinality({n \in 1..Len(playlist_items) : playlist_items[n].playlist_id = p})

\* number of playlist_items rows of playlist p for the track with external id x
ItemRows(p, x) ==
    Cardinality({n \in 1..Len(playlist_items) :
                    /\ playlist_items[n].playlist_id = p
                    /\ \E t \in Range(tracks) :
                          t.id = playlist_items[n].track_id /\ t.audius_track_id = x})

\* C2: two successive POST /playlists/P/items by the owner of P with the same
\* audius_track_id, the track not being in P before and no other request for
\* that item running meanwhile: the first answers 201, the second 409, and P
\* has exactly one playlist_items row more than before the first call.
C2_AddTrackTwice ==
    \A i, j \in Reqs :
        ( /\ i # j
          /\ IsOwnerAddTrack(i) /\ IsOwnerAddTrack(j)
          /\ Answered(i) /\ Answered(j)
          /\ SameItem(j, i)
          /\ Successive(i, j)
          /\ \A k \in Reqs \ {i, j} :
                SameItem(k, i) => (k \in req[i].before \/ j \in req[k].before)
          /\ ~ req[i].snap.member )
        => /\ req[i].status = 201
           /\ req[j].status = 409
           /\ PlaylistCount(req[i].param) = req[i].snap.count + 1
           /\ ItemRows(req[i].param, req[i].body.audius_track_id) = 1

\* both calls were made and answered, the second hit the unique constraint
C2_Witness ==
    \E i, j \in Reqs :
        /\ i # j
        /\ IsOwnerAddTrack(i) /\ IsOwnerAddTrack(j)
        /\ Answered(i) /\ Answered(j)
        /\ SameItem(j, i)
        /\ Successive(i, j)
        /\ ~ req[i].snap.member
        /\ req[i].status = 201
        /\ req[j].status = 409 /\ req[j].code = "23505"
        /\ PlaylistCount(req[i].param) = req[i].snap.count + 1

\* C4: two concurrent POST /playlists/P/items by the owner of P with the same
\* audius_track_id, the track row existing and not being in P when the first
\* arrives: one answers 201 and the other 409, none 500, and exactly one
\* playlist_items row for (P, track) exists afterwards.
C4_PlaylistItemRace ==
    \A i, j \in Reqs :
        ( /\ i < j
          /\ IsOwnerAddTrack(i) /\ IsOwnerAddTrack(j)
          /\ Answered(i) /\ Answered(j)
          /\ SameItem(j, i)
          /\ Concurrent(i, j)
          /\ \A k \in Reqs \ {i, j} :
                SameItem(k, i) =>
                    (k \in req[i].before \/ {i, j} \subseteq req[k].before)
          /\ req[i].snap.track
          /\ ~ req[i].snap.member )
        => /\ {req[i].status, req[j].status} = {201, 409}
           /\ ItemRows(req[i].param, req[i].body.audius_track_id) = 1

\* the race is run: both passed the playlist check before either inserted
C4_Witness ==
    \E i, j \in Reqs :
        /\ i # j
        /\ IsOwnerAddTrack(i) /\ IsOwnerAddTrack(j)
        /\ Answered(i) /\ Answered(j)
        /\ SameItem(j, i)
        /\ Concurrent(i, j)
        /\ req[i].snap.track /\ ~ req[i].snap.member
        /\ req[j].snap.track /\ ~ req[j].snap.member
        /\ req[i].status = 201
        /\ req[j].status = 409 /\ req[j].code = "23505"
        /\ ItemRows(req[i].param, req[i].body.audius_track_id) = 1

----------------------------------------------------------------------------
(* Lazy creation of track rows *)

\* requests i and j reference the same track through the same route
SameNewTrack(i, j) ==
    \/ /\ IsAddFavorite(i) /\ IsAddFavorite(j)
       /\ req[i].body.track_id = req[j].body.track_id
    \/ /\ IsOwnerAddTrack(i) /\ IsOwnerAddTrack(j)
       /\ req[i].body.audius_track_id = req[j].body.audius_track_id

\* the track rows request i refers to
ReferencedTracks(i) ==
    IF req[i].kind = "addFavorite" THEN TracksById(req[i].body.track_id)
    ELSE TracksByAudius(req[i].body.audius_track_id)

\* C5: two concurrent requests referencing the same track that does not exist
\* when either arrives (two addFavorite with the same track_id, or two
\* addTrackToPlaylist with the same audius_track_id): neither is answered 500,
\* and exactly one track row is created.
C5_TrackRaceNotSurfaced ==
    \A i, j \in Reqs :
        ( /\ i < j
          /\ SameNewTrack(i, j)
          /\ Answered(i) /\ Answered(j)
          /\ Concurrent(i, j)
          /\ ~ req[i].snap.track /\ ~ req[j].snap.track )
        => /\ req[i].status # 500 /\ req[j].status # 500
           /\ Len(ReferencedTracks(i)) = 1

----------------------------------------------------------------------------
(* Ownership and visibility of playlists *)

\* the playlists row with the given id, whatever the policies show of it
PlaylistRow(id) == SelectSeq(playlists, LAMBDA row : row.id = id)

\* an authenticated request to change a playlist that belongs to someone else
NonOwnerMutation(r) ==
    /\ req[r].kind \in {"updatePlaylist", "addTrackToPlaylist"}
    /\ req[r].user # NULL
    /\ \E p \in Range(playlists) : p.id = req[r].param /\ p.owner_id # req[r].user

\* positions of the two handlers behind their ownership comparison
BehindOwnerCheck == {"at_track", "at_insert_track", "at_item", "up_update"}

\* C6: every step of an updatePlaylist or addTrackToPlaylist request by a
\* principal other than the owner of the playlist leaves the playlists,
\* playlist_items and tracks tables unchanged, never takes the handler behind
\* its ownership comparison, and an answer it gives is 403 or 404.
C6_OwnershipChecked ==
    [][\A r \in Reqs :
          (NonOwnerMutation(r) /\ req'[r] # req[r])
          => /\ UNCHANGED <<playlists, playlist_items, tracks>>
             /\ req'[r].pc \notin BehindOwnerCheck
             /\ req'[r].pc = "done" => req'[r].status \in {403, 404}]_vars

\* user B was refused both a track insertion and an update on A's playlist
C6_Witness ==
    \E r1, r2 \in Reqs :
        /\ NonOwnerMutation(r1) /\ NonOwnerMutation(r2)
        /\ req[r1].kind = "addTrackToPlaylist" /\ req[r2].kind = "updatePlaylist"
        /\ Answered(r1) /\ Answered(r2)
        /\ req[r1].status \in {403, 404} /\ req[r2].status \in {403, 404}
        /\ tracks = <<>> /\ playlist_items = <<>>

\* C7: a getPlaylistWithItems request that fetches a playlist which is private
\* and not its principal's is answered 403 or 404 and carries no data; one
\* that fetches a playlist which is public or its principal's own goes on with
\* the playlist row and is answered 200.
C7_PrivateRead ==
    [][\A r \in Reqs :
          ( /\ req[r].kind = "getPlaylistWithItems"
            /\ req[r].user # NULL
            /\ req'[r] # req[r]
            /\ Len(PlaylistRow(req[r].param)) = 1 )
          => LET P == PlaylistRow(req[r].param)[1]
                 hidden == ~ P.is_public /\ P.owner_id # req[r].user
             IN /\ (req[r].pc = "gp_playlist" /\ hidden)
                   => /\ req'[r].pc = "done"
                      /\ req'[r].status \in {403, 404}
                      /\ req'[r].data = <<>>
                /\ (req[r].pc = "gp_playlist" /\ ~ hidden)
                   => /\ req'[r].pc = "gp_items"
                      /\ req'[r].data = <<P>>
                /\ req[r].pc = "gp_items"
                   => /\ req'[r].pc = "done"
                      /\ req'[r].status = 200
                      /\ req'[r].data[1] = req[r].data[1]]_vars

\* the private playlist was read by its owner and refused to the other user
C7_Witness ==
    \E a, b \in Reqs :
        /\ req[a].kind = "getPlaylistWithItems" /\ req[b].kind = "getPlaylistWithItems"
        /\ req[a].param = req[b].param
        /\ Len(PlaylistRow(req[a].param)) = 1
        /\ ~ PlaylistRow(req[a].param)[1].is_public
        /\ req[a].user = PlaylistRow(req[a].param)[1].owner_id
        /\ req[b].user \notin {NULL, req[a].user}
        /\ Answered(a) /\ Answered(b)
        /\ req[a].status = 200 /\ Len(req[a].data) = 2
        /\ req[b].status \in {403, 404} /\ req[b].data = <<>>

----------------------------------------------------------------------------
(* Authentication and the scoped client *)

\* C8: every query of a request goes through the request's own scoped client
\* and carries the request's bearer token.
C8_ScopedClientOnly ==
    \A r \in Reqs : \A x \in req[r].q :
        x.client = req[r].supabase /\ x.token = req[r].token

\* the queries request r issued through a scoped client
ScopedQueries(r) == {x \in req[r].q : x.client # ModuleClient}

\* C9: the scoped clients of distinct requests are distinct objects, and every
\* query a request issued through a scoped client went through its own client
\* and carried its own token.
C9_ClientIsolation ==
    /\ \A r \in Reqs : \A x \in ScopedQueries(r) :
            x.client = req[r].supabase /\ x.token = req[r].token
    /\ \A r1, r2 \in Reqs :
            (r1 # r2 /\ req[r1].supabase # NoClient /\ req[r2].supabase # NoClient)
            => req[r1].supabase # req[r2].supabase

\* two overlapping requests with different tokens have both queried
C9_Witness ==
    \E r1, r2 \in Reqs :
        /\ r1 # r2
        /\ Concurrent(r1, r2)
        /\ req[r1].token # req[r2].token
        /\ ScopedQueries(r1) # {} /\ ScopedQueries(r2) # {}
        /\ Answered(r1) /\ Answered(r2)

\* the middleware called next() for request r
Passed(r) ==
    /\ req[r].pc \notin {"idle", "auth"}
    /\ ~ (req[r].pc = "done" /\ req[r].status = 401)

\* C10: a handler runs, and a query is issued, only for a request whose token
\* the identity provider resolved to a user; a request without token is
\* answered 401 without the identity provider being asked; a request whose
\* verification failed or threw is answered 401 with req.user and
\* req.supabase unset.
C10_VerificationGate ==
    \A r \in Reqs :
        /\ (Passed(r) \/ req[r].q # {})
           => /\ req[r].idp = "user"
              /\ req[r].user # NULL /\ req[r].user = TokenUser(req[r].token)
              /\ req[r].supabase # NoClient
        /\ (req[r].kind # "none" /\ req[r].token = NoToken)
           => /\ Answered(r) /\ req[r].status = 401
              /\ req[r].idp = "none"
        /\ req[r].idp \in {"error", "throws"}
           => /\ Answered(r) /\ req[r].status = 401
              /\ req[r].user = NULL /\ req[r].supabase = NoClient
              /\ req[r].q = {}

\* one request with a bad token was refused, one with a good token was served
C10_Witness ==
    \E r1, r2 \in Reqs :
        /\ req[r1].idp = "error" /\ req[r1].status = 401
        /\ req[r2].idp = "user" /\ Answered(r2) /\ req[r2].status = 200

----------------------------------------------------------------------------
(* Request fields outside the allow-list of track creation *)

\* bodies of POST /favorites that carry the legacy fields artist and duration
FavoriteBodiesLegacy ==
    [track_id : ClientTrackIds,
     title : {"Song B"}, artist : {UNDEF, "Bob"}, artist_name : {UNDEF},
     duration : {NoNum, 7}, duration_seconds : {NoNum},
     audius_track_id : {UNDEF}, audius_stream_url : {UNDEF}]

POST_favorites_legacy(r) ==
    \E body \in FavoriteBodiesLegacy : Arrive(r, "addFavorite", body, NULL)

\* bodies of POST /playlists/:playlistId/items that carry fields the handler
\* does not read
PlaylistItemBodiesExtra ==
    [title : {"Song A"}, duration_seconds : {NoNum}, audius_track_id : AudiusIds,
     audius_stream_url : {"http://x"}, artist_name : {UNDEF},
     artist : {UNDEF, "Bob"}, artwork : {UNDEF, "img"}]

POST_playlist_items_extra(r) ==
    \E body \in PlaylistItemBodiesExtra :
        Arrive(r, "addTrackToPlaylist", body, "P1")

NextAllow ==
    \E r \in Reqs :
        \/ POST_favorites_legacy(r)
        \/ POST_playlist_items_extra(r)
        \/ authenticateToken(r)
        \/ ensureTablesExist(r)
        \/ addFavorite_checkTrack(r)
        \/ addFavorite_insertTrack(r)
        \/ addFavorite_checkFavorite(r)
        \/ addFavorite_insertFavorite(r)
        \/ addFavorite_refetch(r)
        \/ addTrackToPlaylist_checkPlaylist(r)
        \/ addTrackToPlaylist_checkTrack(r)
        \/ addTrackToPlaylist_insertTrack(r)
        \/ addTrackToPlaylist_insertItem(r)

SpecAllow == InitOwn /\ [][NextAllow]_vars

\* the allow-listed fields of a body
AllowListed(body) ==
    [title |-> body.title, artist_name |-> body.artist_name,
     duration_seconds |-> body.duration_seconds,
     audius_track_id |-> body.audius_track_id,
     audius_stream_url |-> body.audius_stream_url]

\* the tracks row a request with body b would write in place of request r
RowOf(r, b) ==
    IF req[r].kind = "addFavorite"
    THEN TracksNewRow(trackData(b.track_id, b))
    ELSE [TracksNewRow(trackInsertData(b)) EXCEPT !.id = req[r].made[1].id]

\* the bodies a request of the kind of r can carry
BodiesLike(r) ==
    IF req[r].kind = "addFavorite"
    THEN {b \in FavoriteBodiesLegacy : b.track_id = req[r].body.track_id}
    ELSE PlaylistItemBodiesExtra

\* C11: the tracks row a request wrote is the row any request would write
\* whose body agrees with it on track_id, title, artist_name,
\* duration_seconds, audius_track_id and audius_stream_url, whatever the other
\* fields of the two bodies are.
C11_AllowList ==
    \A r \in Reqs :
        req[r].made # <<>>
        => \A b \in BodiesLike(r) :
              AllowListed(b) = AllowListed(req[r].body)
              => RowOf(r, b) = req[r].made[1]

----------------------------------------------------------------------------
(* Creating playlists *)

\* the database after the migrations; user A registered, user B did not
InitCreate ==
    /\ schema = [tracks |-> TRUE, playlist_items |-> TRUE, favorites |-> TRUE,
                 artist_name |-> TRUE]
    /\ profiles = {ProfileOf("A")}
    /\ tracks = <<>>
    /\ playlists = <<>>
    /\ playlist_items = <<>>
    /\ favorites = <<>>
    /\ clients = [c \in Reqs \cup {AuthClient} |-> NULL]
    /\ req = [r \in Reqs |-> IdleReq]

NextCreate ==
    \E r \in Reqs :
        \/ POST_playlists(r)
        \/ authenticateToken(r)
        \/ createPlaylist_checkProfile(r)
        \/ createPlaylist_insert(r)

SpecCreate == InitCreate /\ [][NextCreate]_vars

\* an answered createPlaylist request of a principal who has a profile
IsCreatePlaylist(r) ==
    /\ req[r].kind = "createPlaylist"
    /\ req[r].user \in ProfileIds
    /\ Answered(r)

\* the playlists rows with the id the answer to request r carries
CreatedBy(r) ==
    IF req[r].data = <<>> THEN <<>>
    ELSE SelectSeq(playlists, LAMBDA row : row.id = req[r].data[1].id)

\* C12 as stated: every name of length 1..100 is accepted with 201 and one
\* row, every name of length 0 or above 100 is refused with 400 and no row.
C12_NameLength ==
    \A r \in Reqs :
        IsCreatePlaylist(r)
        => IF Len(req[r].body.name) \in 1..MaxNameLength
           THEN req[r].status = 201 /\ Len(CreatedBy(r)) = 1
           ELSE req[r].status = 400 /\ req[r].data = <<>>

\* C12 amended: a name of length 1..100 that is not blank is accepted with 201
\* and one row of the caller holding the trimmed name; a name that is empty,
\* blank or longer than 100 before trimming is refused with 400 and no row;
\* the table holds one row per 201.
C12_NameValidation ==
    /\ \A r \in Reqs :
        IsCreatePlaylist(r)
        => IF /\ Len(req[r].body.name) \in 1..MaxNameLength
              /\ \E n \in 1..Len(req[r].body.name) : req[r].body.name[n] # " "
           THEN /\ req[r].status = 201
                /\ Len(CreatedBy(r)) = 1
                /\ CreatedBy(r)[1].owner_id = req[r].user
                /\ CreatedBy(r)[1].name = TrimChars(req[r].body.name)
           ELSE req[r].status = 400 /\ req[r].data = <<>>
    /\ Len(playlists) = Cardinality({r \in Reqs : req[r].kind = "createPlaylist"
                                                  /\ req[r].status = 201})

\* names at both ends of the range were accepted, and one above it refused
C12_Witness ==
    \E r1, r2 \in Reqs :
        /\ IsCreatePlaylist(r1) /\ IsCreatePlaylist(r2)
        /\ Len(req[r1].body.name) = MaxNameLength /\ req[r1].status = 201
        /\ Len(req[r2].body.name) = MaxNameLength + 1 /\ req[r2].status = 400
        /\ Len(playlists) = 1

----------------------------------------------------------------------------
(* One track row for both routes *)

\* bodies of POST /favorites that name a track row by its id and bring their
\* own metadata
FavoriteBodiesById ==
    {b \in [track_id : ClientTrackIds \cup {t.id : t \in Range(tracks)},
             title : {UNDEF, "Other"}, artist : {UNDEF}, artist_name : {UNDEF},
             duration : {NoNum}, duration_seconds : {NoNum, 9},
             audius_track_id : {UNDEF}, audius_stream_url : {UNDEF}] :
        b.title = "Other" <=> b.duration_seconds = 9}

POST_favorites_byId(r) ==
    \E body \in FavoriteBodiesById : Arrive(r, "addFavorite", body, NULL)

InitBoth == InitWith({<<>>}, {<<PlaylistOfA(TRUE)>>}, {<<>>})

NextBoth ==
    \E r \in Reqs :
        \/ POST_playlist_items(r)
        \/ POST_favorites_byId(r)
        \/ authenticateToken(r)
        \/ ensureTablesExist(r)
        \/ addTrackToPlaylist_checkPlaylist(r)
        \/ addTrackToPlaylist_checkTrack(r)
        \/ addTrackToPlaylist_insertTrack(r)
        \/ addTrackToPlaylist_insertItem(r)
        \/ addFavorite_checkTrack(r)
        \/ addFavorite_insertTrack(r)
        \/ addFavorite_checkFavorite(r)
        \/ addFavorite_insertFavorite(r)
        \/ addFavorite_refetch(r)

SpecBoth == InitBoth /\ [][NextBoth]_vars

\* request f favorites by id the track row that request p created
FavoritesTrackOf(f, p) ==
    /\ req[p].kind = "addTrackToPlaylist" /\ req[p].made # <<>>
    /\ req[f].kind = "addFavorite" /\ req[f].user # NULL
    /\ req[f].body.track_id = req[p].made[1].id
    /\ req[f].snap.track

\* C13: an addFavorite that names by id a track row which an
\* addTrackToPlaylist created never inserts a track row, the row stays the
\* single row with that id and as it was created, and once answered (200 or
\* 201) the caller's favorite references that row.
C13_SingleTrackRow ==
    \A f, p \in Reqs :
        FavoritesTrackOf(f, p)
        => /\ req[f].made = <<>>
           /\ TracksById(req[f].body.track_id) = req[p].made
           /\ TracksByAudius(req[p].body.audius_track_id) = req[p].made
           /\ Answered(f)
              => /\ req[f].status \in {200, 201}
                 /\ FavoriteRows(req[f].user, req[p].made[1].id) = 1

\* the track of the playlist was favorited with other metadata
C13_Witness ==
    \E f, p \in Reqs :
        /\ FavoritesTrackOf(f, p)
        /\ req[f].body.title = "Other" /\ req[f].body.duration_seconds = 9
        /\ Answered(f) /\ req[f].status = 201
        /\ tracks = req[p].made
        /\ FavoriteRows(req[f].user, req[p].made[1].id) = 1

----------------------------------------------------------------------------
(* Updating playlists *)

\* a playlist created earlier by user B
PlaylistOfB ==
    [id |-> "P2", owner_id |-> "B", name |-> <<"B">>, description |-> "",
     is_public |-> TRUE]

InitPatch == InitWith({<<>>}, {<<PlaylistOfA(FALSE), PlaylistOfB>>}, {<<>>})

\* PATCH /playlists/P1
PATCH_playlist_P1(r) ==
    \E body \in PlaylistPatches : Arrive(r, "updatePlaylist", body, "P1")

NextPatch ==
    \E r \in Reqs :
        \/ PATCH_playlist_P1(r)
        \/ authenticateToken(r)
        \/ updatePlaylist_checkPlaylist(r)
        \/ updatePlaylist_update(r)

SpecPatch == InitPatch /\ [][NextPatch]_vars

\* what a playlists row is after a patch with the given body
Patched(row, body) ==
    [id |-> row.id, owner_id |-> row.owner_id, name |-> row.name,
     description |-> IF body.description = UNDEF THEN row.description
                     ELSE body.description,
     is_public |-> IF body.is_public = UNDEF THEN row.is_public
                   ELSE body.is_public = "true"]

----------------------------------------------------------------------------
(* The schema guard *)

\* a database in which the migration created every table and the artist_name
\* column of tracks, or left one of them out
SchemaParts == {"tracks", "playlist_items", "favorites", "artist_name"}

Schemas ==
    {sch \in [SchemaParts -> BOOLEAN] : Cardinality({x \in SchemaParts : ~ sch[x]}) <= 1}

InitGuard ==
    /\ schema \in Schemas
    /\ profiles = {ProfileOf(u) : u \in Users}
    /\ tracks = <<>>
    /\ playlists = <<PlaylistOfA(TRUE)>>
    /\ playlist_items = <<>>
    /\ favorites = <<>>
    /\ clients = [c \in Reqs \cup {AuthClient} |-> NULL]
    /\ req = [r \in Reqs |-> IdleReq]

\* POST /favorites with only a track_id
FavoriteBodiesPlain ==
    [track_id : ClientTrackIds, title : {UNDEF}, artist : {UNDEF}, artist_name : {UNDEF},
     duration : {NoNum}, duration_seconds : {NoNum},
     audius_track_id : {UNDEF}, audius_stream_url : {UNDEF}]

POST_favorites_plain(r) ==
    \E body \in FavoriteBodiesPlain : Arrive(r, "addFavorite", body, NULL)

\* POST /playlists/P1/items
POST_playlist_items_P1(r) ==
    \E body \in PlaylistItemBodies : Arrive(r, "addTrackToPlaylist", body, "P1")

NextGuard ==
    \E r \in Reqs :
        \/ POST_favorites_plain(r)
        \/ POST_playlist_items_P1(r)
        \/ authenticateToken(r)
        \/ ensureTablesExist(r)
        \/ addFavorite_checkTrack(r)
        \/ addFavorite_insertTrack(r)
        \/ addFavorite_checkFavorite(r)
        \/ addFavorite_insertFavorite(r)
        \/ addFavorite_refetch(r)
        \/ addTrackToPlaylist_checkPlaylist(r)
        \/ addTrackToPlaylist_checkTrack(r)
        \/ addTrackToPlaylist_insertTrack(r)
        \/ addTrackToPlaylist_insertItem(r)

SpecGuard == InitGuard /\ [][NextGuard]_vars

TableMissing == \E x \in {"tracks", "playlist_items", "favorites"} : ~ schema[x]

\* C15: with one of the tables tracks, playlist_items, favorites missing, an
\* addFavorite or addTrackToPlaylist request that has called ensureTablesExist
\* is answered 500 'Database schema error' with the remediation text, has
\* called it once, and no row has been inserted into any table.
C15_SchemaGuard ==
    TableMissing
    => /\ \A r \in Reqs :
            (req[r].kind \in {"addFavorite", "addTrackToPlaylist"} /\ req[r].probes > 0)
            => /\ Answered(r)
               /\ req[r].status = 500
               /\ req[r].error = "Database schema error"
               /\ req[r].data = <<[details |-> schemaCheckError]>>
               /\ req[r].probes = 1
               /\ req[r].made = <<>>
       /\ tracks = <<>> /\ playlist_items = <<>> /\ favorites = <<>>

\* with favorites missing, both handlers were stopped by the guard
C15_Witness ==
    /\ ~ schema.favorites
    /\ \E r1, r2 \in Reqs :
        /\ req[r1].kind = "addFavorite" /\ req[r2].kind = "addTrackToPlaylist"
        /\ req[r1].probes = 1 /\ req[r2].probes = 1
        /\ req[r1].status = 500 /\ req[r2].status = 500
        /\ req[r1].error = "Database schema error"
        /\ req[r2].error = "Database schema error"

----------------------------------------------------------------------------
(* The optional column *)

ColumnMissing == ~ schema.artist_name /\ ~ TableMissing

\* C16: with every table present and the artist_name column of tracks
\* missing, an addFavorite or addTrackToPlaylist request that supplies no
\* artist_name is not answered 500 by the schema guard, nor because a
\* statement of the handler names the missing column.
C16_Degradation ==
    ColumnMissing
    => \A r \in Reqs :
          (/\ req[r].kind \in {"addFavorite", "addTrackToPlaylist"}
           /\ req[r].body.artist_name = UNDEF
           /\ Answered(r))
          => ~ (/\ req[r].status = 500
                /\ \/ req[r].error = "Database schema error"
                   \/ req[r].code \in {"PGRST204", "42703"})

----------------------------------------------------------------------------
(* Removing favorites *)

IsRemoveFavorite(r) == req[r].kind = "removeFavorite" /\ req[r].user # NULL

\* the favorites table without the rows (u, t)
WithoutFavorite(rows, u, t) == SelectSeq(rows, LAMBDA row : ~ FavIs(row, <<u, t>>))

\* the step of request r that runs the delete and answers
RemoveStep(r) == req[r].pc = "rf_delete" /\ req'[r].pc = "done"

----------------------------------------------------------------------------
(* Track rows *)

\* a body of POST /playlists/P1/items whose title and URL differ from the
\* stored row with the same audius_track_id
PlaylistItemBodiesRenamed ==
    [title : {"Song Z"}, duration_seconds : {NoNum}, audius_track_id : AudiusIds,
     audius_stream_url : {"http://y"}, artist_name : {UNDEF}]

POST_playlist_items_renamed(r) ==
    \E body \in PlaylistItemBodiesRenamed : Arrive(r, "addTrackToPlaylist", body, "P1")

\* bodies of POST /favorites that describe the track otherwise than a stored
\* row with the track_id does
FavoriteBodiesRenamed ==
    [track_id : ClientTrackIds \cup {t.id : t \in Range(tracks)},
     title : {"Other"}, artist : {UNDEF}, artist_name : {"Bob"},
     duration : {NoNum}, duration_seconds : {9},
     audius_track_id : {UNDEF}, audius_stream_url : {"http://y"}]

POST_favorites_renamed(r) ==
    \E body \in FavoriteBodiesRenamed : Arrive(r, "addFavorite", body, NULL)

\* DELETE /favorites/T1
DELETE_favorites_T1(r) == Arrive(r, "removeFavorite", <<>>, "T1")

\* PATCH /playlists/P1 with a description
PATCH_description_P1(r) ==
    Arrive(r, "updatePlaylist", [description |-> "mix", is_public |-> UNDEF], "P1")

\* POST /playlists with a one-letter name
POST_playlists_named(r) ==
    Arrive(r, "createPlaylist",
           [name |-> <<"a">>, description |-> UNDEF, is_public |-> UNDEF], NULL)

InitTracks == InitWith({<<>>, <<CatalogueTrack>>}, {<<PlaylistOfA(TRUE)>>}, {<<>>})

\* every route that writes
NextTracks ==
    \E r \in Reqs :
        \/ POST_favorites_renamed(r)
        \/ DELETE_favorites_T1(r)
        \/ POST_playlist_items_renamed(r)
        \/ PATCH_description_P1(r)
        \/ POST_playlists_named(r)
        \/ authenticateToken(r)
        \/ ensureTablesExist(r)
        \/ addFavorite_checkTrack(r)
        \/ addFavorite_insertTrack(r)
        \/ addFavorite_checkFavorite(r)
        \/ addFavorite_insertFavorite(r)
        \/ addFavorite_refetch(r)
        \/ removeFavorite(r)
        \/ addTrackToPlaylist_checkPlaylist(r)
        \/ addTrackToPlaylist_checkTrack(r)
        \/ addTrackToPlaylist_insertTrack(r)
        \/ addTrackToPlaylist_insertItem(r)
        \/ updatePlaylist_checkPlaylist(r)
        \/ updatePlaylist_update(r)
        \/ createPlaylist_checkProfile(r)
        \/ createPlaylist_insert(r)

SpecTracks == InitTracks /\ [][NextTracks]_vars

\* C18: no step of an addFavorite, removeFavorite, addTrackToPlaylist,
\* updatePlaylist or createPlaylist request changes or deletes a track row
\* that exists: every row of tracks is the same row after the step.
C18_TrackImmutable ==
    [][/\ Len(tracks') >= Len(tracks)
       /\ \A n \in 1..Len(tracks) : tracks'[n] = tracks[n]]_vars

\* two add requests named the stored track with another title and were
\* served from the stored row
C18_Witness ==
    /\ tracks = <<CatalogueTrack>>
    /\ \E i, j \in Reqs :
        /\ req[i].kind = "addTrackToPlaylist" /\ req[i].status = 201
        /\ req[i].body.title # CatalogueTrack.title
        /\ req[i].body.audius_track_id = CatalogueTrack.audius_track_id
        /\ req[j].kind = "addFavorite" /\ req[j].status = 201
        /\ req[j].body.track_id = CatalogueTrack.id
        /\ req[j].body.title # CatalogueTrack.title

----------------------------------------------------------------------------
(* Reading the items of a playlist *)

\* bodies of POST /playlists/P1/items for two tracks
PlaylistItemBodiesTwo ==
    [title : {"Song A"}, duration_seconds : {NoNum}, audius_track_id : {"X1", "X2"},
     audius_stream_url : {"http://x"}, artist_name : {UNDEF}]

POST_playlist_items_two(r) ==
    \E body \in PlaylistItemBodiesTwo : Arrive(r, "addTrackToPlaylist", body, "P1")

\* GET /playlists/P1
GET_playlist_P1(r) == Arrive(r, "getPlaylistWithItems", <<>>, "P1")

\* two playlists, each holding the track an earlier request added
InitOrder ==
    /\ schema = [tracks |-> TRUE, playlist_items |-> TRUE, favorites |-> TRUE,
                 artist_name |-> TRUE]
    /\ profiles = {ProfileOf(u) : u \in Users}
    /\ tracks = <<CatalogueTrack>>
    /\ playlists = <<PlaylistOfA(TRUE), PlaylistOfB>>
    /\ playlist_items = <<[id |-> 1, playlist_id |-> "P1", track_id |-> "G1"],
                          [id |-> 2, playlist_id |-> "P2", track_id |-> "G1"]>>
    /\ favorites = <<>>
    /\ clients = [c \in Reqs \cup {AuthClient} |-> NULL]
    /\ req = [r \in Reqs |-> IdleReq]

NextOrder ==
    \E r \in Reqs :
        \/ POST_playlist_items_two(r)
        \/ GET_playlist_P1(r)
        \/ authenticateToken(r)
        \/ ensureTablesExist(r)
        \/ addTrackToPlaylist_checkPlaylist(r)
        \/ addTrackToPlaylist_checkTrack(r)
        \/ addTrackToPlaylist_insertTrack(r)
        \/ addTrackToPlaylist_insertItem(r)
        \/ getPlaylistWithItems_fetchPlaylist(r)
        \/ getPlaylistWithItems_fetchItems(r)

SpecOrder == InitOrder /\ [][NextOrder]_vars

\* places in playlist_items of the rows of playlist p
ItemsOf(p) == {n \in 1..Len(playlist_items) : playlist_items[n].playlist_id = p}

\* C19: the step of getPlaylistWithItems that reads the items answers 200
\* with the playlist followed by one entry for each playlist_items row of
\* that playlist and no other, each entry carrying the row's id, its added_at
\* and the tracks row its track_id names, the entries in non-increasing
\* added_at order.
C19_ItemOrder ==
    [][\A r \in Reqs :
          (req[r].pc = "gp_items" /\ req'[r].pc = "done")
          => LET items == SubSeq(req'[r].data, 2, Len(req'[r].data))
             IN /\ req'[r].status = 200
                /\ Len(items) = Cardinality(ItemsOf(req[r].param))
                /\ \A n \in ItemsOf(req[r].param) :
                      \E k \in 1..Len(items) :
                          /\ items[k].id = playlist_items[n].id
                          /\ items[k].added_at = n
                          /\ Len(items[k].track) = 1
                          /\ items[k].track[1] \in Range(tracks)
                          /\ items[k].track[1].id = playlist_items[n].track_id
                /\ \A k \in 1..(Len(items) - 1) :
                      items[k].added_at >= items[k + 1].added_at]_vars

\* a track was added to the playlist and the playlist read: the new item
\* comes before the older one, the other playlist's item is left out
C19_Witness ==
    \E i, j \in Reqs :
        /\ req[i].kind = "addTrackToPlaylist" /\ req[i].status = 201
        /\ req[j].kind = "getPlaylistWithItems" /\ req[j].status = 200
        /\ Successive(i, j)
        /\ Len(req[j].data) = 3
        /\ req[j].data[2].id = req[i].data[1].id
        /\ req[j].data[2].added_at > req[j].data[3].added_at
        /\ req[j].data[3].id = 1
        /\ Cardinality(ItemsOf("P2")) = 1

----------------------------------------------------------------------------
(* Auth router: registration and ensureProfileExists *)

\* the access token the auth service issues to a user
UserToken(u) == CHOOSE t \in Tokens : TokenUser(t) = u

\* the user an e-mail address belongs to
EmailUser(email) == IF email = "a@x" THEN "A" ELSE "B"

\* email.split('@')[0]
EmailLocal(email) == IF email = "a@x" THEN "a" ELSE "b"

\* Date.now()
Clock == {"1", "2"}

\* INSERT INTO profiles through client c: policy profiles_insert_own, then the
\* primary key, then the unique constraint on username.
ProfilesInsertError(c, row) ==
    IF AuthUid(c) # row.user_id THEN [code |-> "42501", message |-> "policy"]
    ELSE IF row.user_id \in ProfileIds
    THEN [code |-> "23505", message |-> "profiles_pkey"]
    ELSE IF \E other \in profiles : other.username = row.username
    THEN [code |-> "23505", message |-> "profiles_username_key"]
    ELSE [code |-> "ok", message |-> ""]

\* insertError.message.includes('username')
IncludesUsername(message) == message = "profiles_username_key"

\* router.post('/register', ...), up to the call of supabase.auth.signUp
RegisterBodies == [email : {UNDEF, "a@x", "b@x"}, username : {<<>>, <<"a", "n", "n">>}]

POST_register(r) ==
    /\ req[r].pc = "idle"
    /\ \A s \in 1..(r - 1) : req[s].pc # "idle"
    /\ \E body \in RegisterBodies :
        LET rec == [IdleReq EXCEPT !.kind = "register", !.body = body, !.before = Done]
        IN req' = [req EXCEPT ![r] =
                     IF body.email = UNDEF
                     THEN Respond(rec, 400, "Email and password are required")
                     ELSE [rec EXCEPT !.pc = "rg_signup"]]
    /\ UNCHANGED <<db, clients>>

\* supabase.auth.signUp({email, password, ...}) on the module's client: an
\* error, a user with a session, which the client keeps and sends with its
\* later queries, or a user whose e-mail is still to be confirmed and who
\* gets no session.
signUp(r) ==
    /\ req[r].pc = "rg_signup"
    /\ \E outcome \in {"error", "session", "user"} :
        LET rec == [req[r] EXCEPT !.idp = outcome]
            u == EmailUser(rec.body.email)
        IN /\ req' = [req EXCEPT ![r] =
                        IF outcome = "error"
                        THEN Respond(rec, 400, "Failed to create authentication account")
                        ELSE [rec EXCEPT !.pc = "ep_select", !.user = u]]
           /\ clients' = IF outcome = "session"
                         THEN [clients EXCEPT ![AuthClient] = UserToken(u)]
                         ELSE clients
    /\ UNCHANGED db

\* username || email.split('@')[0] + '_' + userId.substring(0, 8)
finalUsername(rec) ==
    IF rec.body.username # <<>> THEN rec.body.username
    ELSE <<EmailLocal(rec.body.email), "_", rec.user>>

\* the row ensureProfileExists inserts
NewProfile(rec, username) ==
    [user_id |-> rec.user, username |-> username, display_name |-> rec.body.username]

\* data.session?.access_token
AccessToken(rec) == IF rec.idp = "session" THEN UserToken(rec.user) ELSE UNDEF

\* the answer of the register handler when ensureProfileExists threw: the
\* user and the tokens, no profile
ProfileError(rec, err) ==
    [Respond([rec EXCEPT !.code = err.code], 200, "profile_error") EXCEPT
        !.data = <<[user |-> rec.user, access_token |-> AccessToken(rec)]>>]

\* the answer of the register handler with the result of ensureProfileExists
ProfileResult(rec, row, created) ==
    [Respond(rec, 200, "") EXCEPT
        !.data = <<[user |-> rec.user, access_token |-> AccessToken(rec),
                    profile |-> row, created |-> created]>>]

\* ensureProfileExists: select('*').eq('user_id', userId).single()
ensureProfileExists_select(r) ==
    /\ req[r].pc = "ep_select"
    /\ LET rec == Issue(req[r], AuthClient)
           existingProfile == ProfilesSelect(AuthClient, rec.user)
       IN req' = [req EXCEPT ![r] =
                    IF existingProfile # {}
                    THEN ProfileResult(rec, CHOOSE row \in existingProfile : TRUE, FALSE)
                    ELSE [rec EXCEPT !.pc = "ep_insert"]]
    /\ UNCHANGED <<db, clients>>

\* ensureProfileExists: insert([{user_id, username: finalUsername, ...}])
ensureProfileExists_insert(r) ==
    /\ req[r].pc = "ep_insert"
    /\ LET rec == Issue(req[r], AuthClient)
           newProfile == NewProfile(rec, finalUsername(rec))
           insertError == ProfilesInsertError(AuthClient, newProfile)
       IN IF insertError.code = "ok"
          THEN /\ profiles' = profiles \cup {newProfile}
               /\ req' = [req EXCEPT ![r] = ProfileResult(rec, newProfile, TRUE)]
          ELSE /\ UNCHANGED profiles
               /\ req' = [req EXCEPT ![r] =
                            IF insertError.code = "23505"
                               /\ IncludesUsername(insertError.message)
                            THEN [rec EXCEPT !.pc = "ep_retry", !.code = insertError.code]
                            ELSE ProfileError(rec, insertError)]
    /\ UNCHANGED <<schema, tracks, playlists, playlist_items, favorites, clients>>

\* ensureProfileExists: the second insert, username finalUsername + '_' + Date.now()
ensureProfileExists_retry(r) ==
    /\ req[r].pc = "ep_retry"
    /\ \E now \in Clock :
        LET rec == Issue(req[r], AuthClient)
            retryProfile == NewProfile(rec, finalUsername(rec) \o <<"_", now>>)
            retryError == ProfilesInsertError(AuthClient, retryProfile)
        IN IF retryError.code = "ok"
           THEN /\ profiles' = profiles \cup {retryProfile}
                /\ req' = [req EXCEPT ![r] = ProfileResult(rec, retryProfile, TRUE)]
           ELSE /\ UNCHANGED profiles
                /\ req' = [req EXCEPT ![r] = ProfileError(rec, retryError)]
    /\ UNCHANGED <<schema, tracks, playlists, playlist_items, favorites, clients>>

\* no profile yet, or the profile of user B under the name ann
InitRegister ==
    /\ schema = [tracks |-> TRUE, playlist_items |-> TRUE, favorites |-> TRUE,
                 artist_name |-> TRUE]
    /\ profiles \in {{}, {[user_id |-> "B", username |-> <<"a", "n", "n">>,
                           display_name |-> <<"a", "n", "n">>]}}
    /\ tracks = <<>>
    /\ playlists = <<>>
    /\ playlist_items = <<>>
    /\ favorites = <<>>
    /\ clients = [c \in Reqs \cup {AuthClient} |-> NULL]
    /\ req = [r \in Reqs |-> IdleReq]

NextRegister ==
    \E r \in Reqs :
        \/ POST_register(r)
        \/ signUp(r)
        \/ ensureProfileExists_select(r)
        \/ ensureProfileExists_insert(r)
        \/ ensureProfileExists_retry(r)

SpecRegister == InitRegister /\ [][NextRegister]_vars

\* request r called ensureProfileExists and the call has returned or thrown
ProfileEnsured(r) == req[r].kind = "register" /\ req[r].user # NULL /\ Answered(r)

ProfileRows(u) == {row \in profiles : row.user_id = u}

\* C20: once a call of ensureProfileExists for a user id is over, exactly one
\* profiles row has that user id; a call that finds the row returns it with
\* created = false and leaves the table as it was.
C20_OneProfile ==
    /\ [](\A r \in Reqs :
            ProfileEnsured(r) => Cardinality(ProfileRows(req[r].user)) = 1)
    /\ [][\A r \in Reqs :
            (req[r].pc = "ep_select" /\ req'[r] # req[r] /\ ProfileRows(req[r].user) # {})
            => /\ profiles' = profiles
               /\ req'[r].pc = "done"
               /\ Len(req'[r].data) = 1
               /\ req'[r].data[1].profile \in ProfileRows(req[r].user)
               /\ req'[r].data[1].created = FALSE]_vars

----------------------------------------------------------------------------
(* The answer of POST /auth/register *)

\* C21: an answer 200 of POST /auth/register carries the user, the profile
\* row of that user, which is a row of the profiles table, and the access
\* token when signUp returned a session.
C21_RegisterShape ==
    \A r \in Reqs :
        (req[r].kind = "register" /\ Answered(r) /\ req[r].status = 200)
        => /\ Len(req[r].data) = 1
           /\ req[r].data[1].user = req[r].user
           /\ "profile" \in DOMAIN req[r].data[1]
           /\ req[r].data[1].profile \in ProfileRows(req[r].user)
           /\ req[r].idp = "session" => req[r].data[1].access_token # UNDEF

----------------------------------------------------------------------------
(* The body of a 500 answer *)

ProviderTexts == {"duplicate key value", "Key already exists"}

\* a track row holds the audius_track_id some of the requests name
FavoriteBodiesClash ==
    [track_id : ClientTrackIds, title : {UNDEF}, artist : {UNDEF}, artist_name : {UNDEF},
     duration : {NoNum}, duration_seconds : {NoNum},
     audius_track_id : {UNDEF, CatalogueTrack.audius_track_id},
     audius_stream_url : {UNDEF}]

POST_favorites_text(r) ==
    \E body \in FavoriteBodiesClash : \E text \in ProviderTexts :
        ArriveText(r, "addFavorite", body, NULL, text)

POST_playlist_items_text(r) ==
    \E body \in PlaylistItemBodiesTwo : \E text \in ProviderTexts :
        ArriveText(r, "addTrackToPlaylist", body, "P1", text)

InitText == InitWith({<<CatalogueTrack>>}, {<<PlaylistOfA(TRUE)>>}, {<<>>})

NextText ==
    \E r \in Reqs :
        \/ POST_favorites_text(r)
        \/ POST_playlist_items_text(r)
        \/ authenticateToken(r)
        \/ ensureTablesExist(r)
        \/ addFavorite_checkTrack(r)
        \/ addFavorite_insertTrack(r)
        \/ addFavorite_checkFavorite(r)
        \/ addFavorite_insertFavorite(r)
        \/ addFavorite_refetch(r)
        \/ addTrackToPlaylist_checkPlaylist(r)
        \/ addTrackToPlaylist_checkTrack(r)
        \/ addTrackToPlaylist_insertTrack(r)
        \/ addTrackToPlaylist_insertItem(r)

SpecText == InitText /\ [][NextText]_vars

\* C22: two requests of the favorites and playlists handlers that were
\* answered 500 by the same handler for the same data layer error, the
\* wording of the provider's error text apart, got the same body.
C22_FixedBody ==
    \A r1, r2 \in Reqs :
        ( /\ req[r1].kind \in {"addFavorite", "addTrackToPlaylist"}
          /\ req[r1].kind = req[r2].kind
          /\ Answered(r1) /\ Answered(r2)
          /\ req[r1].status = 500 /\ req[r2].status = 500
          /\ req[r1].error = req[r2].error
          /\ req[r1].code = req[r2].code )
        => Body(req[r1]) = Body(req[r2])

----------------------------------------------------------------------------
(* What a reader learns about a private playlist *)

\* the step of request r that fetches the playlist
FetchStep(r) ==
    /\ req[r].kind = "getPlaylistWithItems"
    /\ req[r].pc = "gp_playlist"
    /\ req'[r] # req[r]

\* the playlist request r names exists, is private and belongs to someone else
HiddenFrom(r) ==
    /\ Len(PlaylistRow(req[r].param)) = 1
    /\ ~ PlaylistRow(req[r].param)[1].is_public
    /\ PlaylistRow(req[r].param)[1].owner_id # req[r].user

----------------------------------------------------------------------------
(* A data layer that fails after the track was created *)

\* the error of a statement that did not reach the database or timed out
\* before it was run
Unavailable == "fetch failed"

\* the favorite check fails: favoriteCheckError is not looked at, the handler
\* goes on to the insert
addFavorite_checkFavorite_fault(r) ==
    /\ req[r].pc = "af_favorite"
    /\ req' = [req EXCEPT ![r] =
                 [Issue(req[r], req[r].supabase) EXCEPT !.pc = "af_insert"]]
    /\ UNCHANGED <<db, clients>>

\* the insert into favorites fails and writes nothing: insertError is thrown
\* to the catch
addFavorite_insertFavorite_fault(r) ==
    /\ req[r].pc = "af_insert"
    /\ req' = [req EXCEPT ![r] =
                 Respond([Issue(req[r], req[r].supabase) EXCEPT !.code = Unavailable],
                         500, "Failed to add favorite")]
    /\ UNCHANGED <<db, clients>>

\* the insert into playlist_items fails and writes nothing
addTrackToPlaylist_insertItem_fault(r) ==
    /\ req[r].pc = "at_item"
    /\ req' = [req EXCEPT ![r] =
                 Respond([Issue(req[r], req[r].supabase) EXCEPT !.code = Unavailable],
                         500, "Failed to add track to playlist")]
    /\ UNCHANGED <<db, clients>>

InitRetry == InitWith({<<>>}, {<<PlaylistOfA(TRUE)>>}, {<<>>})

NextRetry ==
    \E r \in Reqs :
        \/ POST_favorites_plain(r)
        \/ POST_playlist_items_P1(r)
        \/ authenticateToken(r)
        \/ ensureTablesExist(r)
        \/ addFavorite_checkTrack(r)
        \/ addFavorite_insertTrack(r)
        \/ addFavorite_checkFavorite(r)
        \/ addFavorite_checkFavorite_fault(r)
        \/ addFavorite_insertFavorite(r)
        \/ addFavorite_insertFavorite_fault(r)
        \/ addFavorite_refetch(r)
        \/ addTrackToPlaylist_checkPlaylist(r)
        \/ addTrackToPlaylist_checkTrack(r)
        \/ addTrackToPlaylist_insertTrack(r)
        \/ addTrackToPlaylist_insertItem(r)
        \/ addTrackToPlaylist_insertItem_fault(r)

SpecRetry == InitRetry /\ [][NextRetry]_vars

\* request i created its track and then failed at its junction insert
FailedAfterTrack(i) ==
    /\ req[i].kind \in {"addFavorite", "addTrackToPlaylist"}
    /\ Answered(i)
    /\ req[i].made # <<>>
    /\ req[i].status = 500 /\ req[i].code = Unavailable

\* request j is request i sent again once i was answered, nothing else running
\* since i arrived, and the identity provider and the data layer have served j
RetryOf(j, i) ==
    /\ i # j
    /\ req[j].kind = req[i].kind /\ req[j].token = req[i].token
    /\ req[j].body = req[i].body /\ req[j].param = req[i].param
    /\ Successive(i, j)
    /\ \A k \in Reqs \ {i, j} : k \in req[i].before
    /\ Answered(j) /\ req[j].idp = "user" /\ req[j].code # Unavailable

\* rows of the junction table request i writes to, for its principal or
\* playlist and the track it made
JunctionRows(i) ==
    IF req[i].kind = "addFavorite"
    THEN FavoriteRows(req[i].user, req[i].made[1].id)
    ELSE Cardinality({n \in 1..Len(playlist_items) :
                         ItemIs(playlist_items[n], <<req[i].param, req[i].made[1].id>>)})

\* C24: a request that created its track and whose junction insert then failed
\* without writing has left no junction row; the same request sent again to a
\* working data layer, nothing else running meanwhile, answers 201, and then
\* there is the one track row the first request made and one junction row.
C24_SafeRetry ==
    \A i \in Reqs :
        FailedAfterTrack(i)
        => /\ (\A k \in Reqs \ {i} : k \in req[i].before \/ req[k].pc = "idle")
              => JunctionRows(i) = 0
           /\ \A j \in Reqs :
                 RetryOf(j, i)
                 => /\ req[j].status = 201
                    /\ req[j].made = <<>>
                    /\ req[i].made[1] \in Range(tracks)
                    /\ Cardinality({n \in 1..Len(tracks) :
                                        tracks[n].id = req[i].made[1].id}) = 1
                    /\ JunctionRows(i) = 1

\* the track was added to the playlist by the second sending
C24_Witness ==
    \E i, j \in Reqs :
        /\ FailedAfterTrack(i) /\ RetryOf(j, i)
        /\ req[i].kind = "addTrackToPlaylist"
        /\ req[j].status = 201
        /\ JunctionRows(i) = 1

----------------------------------------------------------------------------
(* Updating a profile *)

\* UPDATE profiles ... WHERE user_id = .. under profiles_update_own
\* (USING auth.uid() = user_id): the rows the statement reaches
ProfilesUpdatable(c, userId) ==
    {row \in profiles : row.user_id = userId /\ AuthUid(c) = row.user_id}

\* updates: the fields the body has, trimmed
ProfileUpdated(row, body) ==
    [row EXCEPT !.username = IF Has(body, "username") THEN TrimChars(body.username) ELSE @,
                !.display_name = IF Has(body, "display_name")
                                 THEN TrimChars(body.display_name) ELSE @]

\* update(updates).eq('user_id', userId).select().single() through the client
\* the profile router creates at module level
updateProfile_update(r) ==
    /\ req[r].pc = "pu_update"
    /\ LET rec == Issue(req[r], ModuleClient)
           reached == ProfilesUpdatable(ModuleClient, rec.user)
           after == {ProfileUpdated(row, rec.body) : row \in reached}
           taken == \E row \in after : \E other \in profiles \ reached :
                        other.username = row.username
       IN IF reached = {}
          THEN /\ UNCHANGED profiles
               /\ req' = [req EXCEPT ![r] =
                            Respond([rec EXCEPT !.code = "PGRST116"], 404,
                                    "Profile not found")]
          ELSE IF taken
          THEN /\ UNCHANGED profiles
               /\ req' = [req EXCEPT ![r] =
                            Respond([rec EXCEPT !.code = "23505"], 409,
                                    "Username already taken")]
          ELSE /\ profiles' = (profiles \ reached) \cup after
               /\ req' = [req EXCEPT ![r] =
                            [Respond(rec, 200, "") EXCEPT !.data = <<after>>]]
    /\ UNCHANGED <<schema, tracks, playlists, playlist_items, favorites, clients>>

\* bodies of PUT /profile: a free name, the name of user B, a name with a
\* blank, a name of 51 characters, and a display name
ProfileBodies ==
    LET names == {<<"a", "n", "n">>, ProfileOf("B").username, <<"a", " ", "n">>,
                  Repeat("a", MaxUsernameLength + 1)}
    IN {<<>>} \cup {[username |-> u] : u \in names}
       \cup {[display_name |-> <<"A", "n", "n">>]}
       \cup {[username |-> u, display_name |-> <<"A", "n", "n">>] : u \in names}

\* router.put('/', authenticateToken, ...) and router.patch('/', ...)
PUT_profile(r) == \E body \in ProfileBodies : Arrive(r, "updateProfile", body, NULL)

InitProfile == InitWith({<<>>}, {<<>>}, {<<>>})

NextProfile ==
    \E r \in Reqs :
        \/ PUT_profile(r)
        \/ authenticateToken(r)
        \/ updateProfile_update(r)

SpecProfile == InitProfile /\ [][NextProfile]_vars

\* the step of request r that runs the update
UpdateStep(r) == req[r].pc = "pu_update" /\ req'[r].pc = "done"

\* the username of request r's body is the username of another user's row
NameTaken(r) ==
    /\ Has(req[r].body, "username")
    /\ \E other \in profiles :
          other.user_id # req[r].user /\ other.username = TrimChars(req[r].body.username)

\* C25: no two profile rows share a username; an update of the profile whose
\* username another profile holds answers 409 and leaves every row as it was;
\* an update leaves the rows of the other users as they were.
C25_UniqueUsername ==
    /\ [](\A p1, p2 \in profiles : p1.username = p2.username => p1 = p2)
    /\ [][\A r \in Reqs :
            UpdateStep(r)
            => /\ NameTaken(r) => (req'[r].status = 409 /\ profiles' = profiles)
               /\ \A row \in profiles : row.user_id # req[r].user => row \in profiles']_vars

----------------------------------------------------------------------------
(* Owner of a playlist *)

\* PATCH /playlists/:playlistId of the first playlist the service created
PATCH_playlist_Q1(r) ==
    \E body \in PlaylistPatches : Arrive(r, "updatePlaylist", body, GenPlaylistIds[1])

\* only A has a profile row; no playlist yet
InitOwner == InitCreate

NextOwner ==
    \E r \in Reqs :
        \/ POST_playlists_named(r)
        \/ PATCH_playlist_Q1(r)
        \/ authenticateToken(r)
        \/ createPlaylist_checkProfile(r)
        \/ createPlaylist_insert(r)
        \/ updatePlaylist_checkPlaylist(r)
        \/ updatePlaylist_update(r)

SpecOwner == InitOwner /\ [][NextOwner]_vars

\* an authenticated createPlaylist request that has been answered
CreateAnswered(r) ==
    /\ req[r].kind = "createPlaylist" /\ req[r].pc = "done"
    /\ req[r].idp = "user"

\* the step in which request r inserts its playlist row
CreateStep(r) ==
    /\ req[r].pc = "cp_insert" /\ req'[r].pc = "done"
    /\ Len(playlists') = Len(playlists) + 1

\* C26: every playlist row created by createPlaylist has owner_id equal to
\* the principal of the request that created it, no step changes the owner_id
\* of a row or removes a row, and a createPlaylist request of a principal
\* without a profile row is answered 404 and inserts nothing.
C26_Ownership ==
    /\ [](\A r \in Reqs :
            CreateAnswered(r)
            => /\ req[r].user = TokenUser(req[r].token)
               /\ req[r].status = 201
                  => /\ req[r].data[1].owner_id = req[r].user
                     /\ \E i \in 1..Len(playlists) :
                            /\ playlists[i].id = req[r].data[1].id
                            /\ playlists[i].owner_id = req[r].user
               /\ req[r].user \notin ProfileIds
                  => /\ req[r].status = 404
                     /\ req[r].error = "User profile not found"
                     /\ \A row \in Range(playlists) : row.owner_id # req[r].user)
    /\ [][/\ Len(playlists') >= Len(playlists)
          /\ \A i \in 1..Len(playlists) :
                /\ playlists'[i].id = playlists[i].id
                /\ playlists'[i].owner_id = playlists[i].owner_id
          /\ Len(playlists') > Len(playlists)
             => \E r \in Reqs :
                    /\ CreateStep(r)
                    /\ req[r].user \in ProfileIds
                    /\ playlists'[Len(playlists')].owner_id = req[r].user
          /\ \A r \in Reqs :
                (req[r].kind = "createPlaylist" /\ req[r].user \notin ProfileIds)
                => (req'[r] # req[r] => playlists' = playlists)]_vars

\* A created a playlist and patched it, B without a profile was refused
C26_Witness ==
    \E a, b \in Reqs :
        /\ CreateAnswered(a) /\ req[a].user = "A" /\ req[a].status = 201
        /\ CreateAnswered(b) /\ req[b].user = "B" /\ req[b].status = 404
        /\ Len(playlists) = 1 /\ playlists[1].owner_id = "A"

\* a playlist was patched after its creation and kept its owner
C26_WitnessPatched ==
    \E a, u \in Reqs :
        /\ CreateAnswered(a) /\ req[a].status = 201
        /\ req[u].kind = "updatePlaylist" /\ req[u].status = 200
        /\ playlists[1].owner_id = req[a].user

----------------------------------------------------------------------------
(* Order of the decisions of updatePlaylist *)

\* bodies of PATCH: empty, a description that is a number, an is_public that
\* is a number, and a well-formed one
PatchEmpty == [description |-> UNDEF, is_public |-> UNDEF]
PatchNumberDescription == [description |-> "7", is_public |-> UNDEF]
PatchNumberPublic == [description |-> "mix", is_public |-> "7"]
PatchDescription == [description |-> "mix", is_public |-> UNDEF]

\* :playlistId and body of a PATCH: every body on A's private playlist, an
\* empty and a well-formed one on B's public playlist, a well-formed one on
\* a string that is not a UUID
PatchRequests ==
    ({"P1"} \X {PatchEmpty, PatchNumberDescription, PatchNumberPublic, PatchDescription})
    \cup ({"P2"} \X {PatchEmpty, PatchDescription})
    \cup ({"zz"} \X {PatchDescription})

PATCH_playlist_typed(r) ==
    \E p \in PatchRequests : Arrive(r, "updatePlaylist", p[2], p[1])

InitDecide == InitPatch

NextDecide ==
    \E r \in Reqs :
        \/ PATCH_playlist_typed(r)
        \/ authenticateToken(r)
        \/ updatePlaylist_checkPlaylist(r)
        \/ updatePlaylist_update(r)

SpecDecide == InitDecide /\ [][NextDecide]_vars

\* the request fails one of the checks on its id and body
Malformed(rec) ==
    \/ rec.param = "zz"
    \/ rec.body.description = UNDEF /\ rec.body.is_public = UNDEF
    \/ rec.body.description \notin {UNDEF, "mix"}
    \/ rec.body.is_public \notin {UNDEF, "true", "false"}

\* the playlists rows with the request's id that the caller may read
Returned(rec) ==
    {row \in Range(playlists) :
        row.id = rec.param /\ (row.is_public \/ row.owner_id = rec.user)}

\* C27: an authenticated updatePlaylist request that is malformed is answered
\* 400 without a data query whatever the store holds; a well-formed one is
\* answered 404 if its playlist is not returned, else 403 if the caller is not
\* the owner, and the update is issued only after both checks passed.
C27_DecisionOrder ==
    [][\A r \in Reqs :
        (req[r].kind = "updatePlaylist" /\ req'[r] # req[r])
        => /\ (req[r].pc = "auth" /\ req'[r].idp = "user")
              => /\ req'[r].q = {}
                 /\ playlists' = playlists
                 /\ IF Malformed(req[r])
                    THEN req'[r].pc = "done" /\ req'[r].status = 400
                    ELSE req'[r].pc = "up_playlist"
           /\ req[r].pc = "up_playlist"
              => /\ playlists' = playlists
                 /\ IF Returned(req[r]) = {}
                    THEN req'[r].pc = "done" /\ req'[r].status = 404
                    ELSE IF \E row \in Returned(req[r]) : row.owner_id # req[r].user
                    THEN req'[r].pc = "done" /\ req'[r].status = 403
                    ELSE req'[r].pc = "up_update"
           /\ req'[r].pc = "up_update" => req[r].pc = "up_playlist"
           /\ playlists' # playlists => \E s \in Reqs : req[s].pc = "up_update"]_vars

\* a malformed request on a playlist hidden from its caller was answered 400
\* and another request updated a playlist
C27_Witness ==
    \E r1, r2 \in Reqs :
        /\ req[r1].kind = "updatePlaylist" /\ req[r1].idp = "user"
        /\ req[r1].status = 400 /\ req[r1].param = "P1" /\ req[r1].user = "B"
        /\ req[r1].body.description = "7"
        /\ req[r2].kind = "updatePlaylist" /\ req[r2].status = 200

C27_WitnessRefused ==
    \E r1, r2 \in Reqs :
        /\ req[r1].kind = "updatePlaylist" /\ req[r1].status = 404
        /\ req[r1].q # {} /\ req[r1].param = "P1"
        /\ req[r2].kind = "updatePlaylist" /\ req[r2].status = 403

----------------------------------------------------------------------------
(* Keys of the tracks table *)

POST_favorites_clash(r) ==
    \E body \in FavoriteBodiesClash : Arrive(r, "addFavorite", body, NULL)

\* no track yet, or the track an earlier POST /playlists/P1/items created
InitUnique == InitWith({<<>>, <<CatalogueTrack>>}, {<<PlaylistOfA(TRUE)>>}, {<<>>})

NextUnique ==
    \E r \in Reqs :
        \/ POST_favorites_clash(r)
        \/ POST_playlist_items_P1(r)
        \/ authenticateToken(r)
        \/ ensureTablesExist(r)
        \/ addFavorite_checkTrack(r)
        \/ addFavorite_insertTrack(r)
        \/ addFavorite_checkFavorite(r)
        \/ addFavorite_insertFavorite(r)
        \/ addFavorite_refetch(r)
        \/ addTrackToPlaylist_checkPlaylist(r)
        \/ addTrackToPlaylist_checkTrack(r)
        \/ addTrackToPlaylist_insertTrack(r)
        \/ addTrackToPlaylist_insertItem(r)

SpecUnique == InitUnique /\ [][NextUnique]_vars

\* another track row holds the audius_track_id the request brings
KeyHeld(rec) ==
    \E t \in Range(tracks) :
        /\ t.id # rec.body.track_id
        /\ t.audius_track_id # NULL
        /\ t.audius_track_id = rec.body.audius_track_id

----------------------------------------------------------------------------
(* Favorites of different users *)

\* select(track_id, created_at, track:track_id(...)).eq('user_id', userId)
\* .order('created_at', desc), then the normalized list of getFavorites
getFavorites(r) ==
    /\ req[r].pc = "gf_select"
    /\ LET rec == Issue(req[r], req[r].supabase)
           rows == getFavorites_rows(rec.supabase, rec.user)
           normalizedFavorites ==
               [n \in 1..Len(rows) |->
                   [track_id |-> rows[n].track_id, track |-> TracksById(rows[n].track_id)]]
       IN req' = [req EXCEPT ![r] =
                    [Respond(rec, 200, "") EXCEPT !.data = normalizedFavorites]]
    /\ UNCHANGED <<db, clients>>

\* router.get('/', authenticateToken, getFavorites)
GET_favorites(r) == Arrive(r, "getFavorites", <<>>, NULL)

\* track T1 exists; A has it among the favorites or nobody has
InitIsolation ==
    InitWith({<<FavoritedTrack>>}, {<<PlaylistOfA(TRUE)>>},
             {<<>>, <<[user_id |-> "A", track_id |-> "T1"]>>})

NextIsolation ==
    \E r \in Reqs :
        \/ POST_favorites_plain(r)
        \/ DELETE_favorites_T1(r)
        \/ GET_favorites(r)
        \/ authenticateToken(r)
        \/ ensureTablesExist(r)
        \/ addFavorite_checkTrack(r)
        \/ addFavorite_checkFavorite(r)
        \/ addFavorite_insertFavorite(r)
        \/ addFavorite_refetch(r)
        \/ removeFavorite(r)
        \/ getFavorites(r)

SpecIsolation == InitIsolation /\ [][NextIsolation]_vars

\* the favorites rows of user u, in table order
FavoritesOf(u) == SelectSeq(favorites, LAMBDA row : row.user_id = u)

\* C29: a step that changes the favorites rows of a user is a step of an
\* addFavorite or removeFavorite request of that user, so the requests of B
\* leave the rows of A as they are; and getFavorites returns the rows of its
\* caller and no other.
C29_Isolation ==
    [][/\ \A u \in Users :
            FavoritesOf(u)' # FavoritesOf(u)
            => \E r \in Reqs :
                   /\ req'[r] # req[r]
                   /\ req[r].kind \in {"addFavorite", "removeFavorite"}
                   /\ req[r].user = u /\ TokenUser(req[r].token) = u
       /\ \A r \in Reqs :
            (req[r].pc = "gf_select" /\ req'[r] # req[r])
            => /\ req'[r].status = 200
               /\ req[r].user = TokenUser(req[r].token)
               /\ Len(req'[r].data) = Len(FavoritesOf(req[r].user))
               /\ \A n \in 1..Len(req'[r].data) :
                      \E f \in Range(FavoritesOf(req[r].user)) :
                          f.track_id = req'[r].data[n].track_id]_vars

\* B added and A's favorite is still there, next to B's
C29_Witness ==
    \E r \in Reqs :
        /\ req[r].kind = "addFavorite" /\ req[r].user = "B" /\ req[r].status = 201
        /\ Len(FavoritesOf("A")) = 1 /\ Len(FavoritesOf("B")) = 1

\* B removed its favorite of the track A also has
C29_WitnessRemoved ==
    \E r1, r2 \in Reqs :
        /\ req[r1].kind = "addFavorite" /\ req[r1].user = "B" /\ req[r1].status = 201
        /\ req[r2].kind = "removeFavorite" /\ req[r2].user = "B" /\ req[r2].status = 200
        /\ Len(FavoritesOf("A")) = 1 /\ Len(FavoritesOf("B")) = 0

\* B read its empty list while A has a favorite
C29_WitnessRead ==
    \E r \in Reqs :
        /\ req[r].kind = "getFavorites" /\ req[r].user = "B" /\ req[r].status = 200
        /\ req[r].data = <<>> /\ Len(FavoritesOf("A")) = 1

----------------------------------------------------------------------------
(* Duration of a track *)

\* bodies of POST /playlists/P1/items without duration_seconds, with 0 and
\* with a positive number
PlaylistItemBodiesTimed ==
    [title : {"Song A"}, duration_seconds : {NoNum, 0, 5}, audius_track_id : AudiusIds,
     audius_stream_url : {"http://x"}, artist_name : {UNDEF}]

POST_playlist_items_timed(r) ==
    \E body \in PlaylistItemBodiesTimed : Arrive(r, "addTrackToPlaylist", body, "P1")

InitDuration == InitWith({<<>>}, {<<PlaylistOfA(TRUE)>>}, {<<>>})

NextDuration ==
    \E r \in Reqs :
        \/ POST_playlist_items_timed(r)
        \/ authenticateToken(r)
        \/ ensureTablesExist(r)
        \/ addTrackToPlaylist_checkPlaylist(r)
        \/ addTrackToPlaylist_checkTrack(r)
        \/ addTrackToPlaylist_insertTrack(r)
        \/ addTrackToPlaylist_insertItem(r)

SpecDuration == InitDuration /\ [][NextDuration]_vars

\* C30: the track row an addTrackToPlaylist request created stores the
\* duration_seconds the request supplied, 0 included, and null only when
\* the request supplied none.
C30_DurationStored ==
    \A r \in Reqs :
        (req[r].kind = "addTrackToPlaylist" /\ req[r].made # <<>>)
        => /\ req[r].made[1] \in Range(tracks)
           /\ req[r].made[1].duration_seconds = req[r].body.duration_seconds

====
